---- MODULE Spec2Model ----
(***************************************************************************)
(* A model of the resume information-extraction pipeline                   *)
(* (src/utils/resume_parser.py): construction of ResumeParser, and one     *)
(* invocation of parse_resume / extract_information after another.         *)
(*                                                                         *)
(* Texts are TLA+ strings.  A character is a string of length one, and the *)
(* regular expressions of the source are run by a backtracking matcher     *)
(* with the priorities of Python's re module (greedy repetition, leftmost  *)
(* alternative first).                                                     *)
(***************************************************************************)
EXTENDS Integers, Sequences, FiniteSets, TLC

(***************************************************************************)
(* Strings                                                                 *)
(***************************************************************************)
Ch(s, i) == SubSeq(s, i, i)

CharsOf(s) == {Ch(s, i) : i \in 1..Len(s)}

UpperChars == "ABCDEFGHIJKLMNOPQRSTUVWXYZ"
LowerChars == "abcdefghijklmnopqrstuvwxyz"
DigitChars == "0123456789"

Upper == CharsOf(UpperChars)
Lower == CharsOf(LowerChars)
Digit == CharsOf(DigitChars)
Letter == Upper \cup Lower
\* \w of Python's re, on ASCII text
WordCh == Letter \cup Digit \cup {"_"}
\* \s of Python's re, on ASCII text
Space == {" ", "\t", "\n", "\r"}

LowerOf == [c \in Upper |-> Ch(LowerChars, CHOOSE i \in 1..26 : Ch(UpperChars, i) = c)]

LowerChar(c) == IF c \in Upper THEN LowerOf[c] ELSE c

RECURSIVE lower(_)
\* str.lower(), character by character (halving keeps the evaluation shallow)
lower(s) ==
    IF Len(s) = 0 THEN ""
    ELSE IF Len(s) = 1 THEN LowerChar(s)
    ELSE LET h == Len(s) \div 2
         IN  lower(SubSeq(s, 1, h)) \o lower(SubSeq(s, h + 1, Len(s)))

Max(a, b) == IF a > b THEN a ELSE b
Min(a, b) == IF a < b THEN a ELSE b

\* sub in s
Contains(s, sub) == \E i \in 1..(Len(s) - Len(sub) + 1) : SubSeq(s, i, i + Len(sub) - 1) = sub

SetMin(S) == CHOOSE x \in S : \A y \in S : x <= y
SetMax(S) == CHOOSE x \in S : \A y \in S : x >= y

\* str.strip(): from the first to the last character that is not white space
strip(s) ==
    LET ink == {i \in 1..Len(s) : Ch(s, i) \notin Space}
    IN  IF ink = {} THEN "" ELSE SubSeq(s, SetMin(ink), SetMax(ink))

\* s[a:b] of Python for 0 <= a, b <= len(s): 0-based, b exclusive
Slice(s, a, b) == SubSeq(s, a + 1, b)


(***************************************************************************)
(* The regular-expression matcher.  A pattern is a sequence of items:      *)
(*   [t |-> "cls", set, min, max]  min..max characters of set, greedy      *)
(*                                 (max = -1: unbounded)                   *)
(*   [t |-> "lit", s]              the string s                            *)
(*   [t |-> "wb"]                  \b                                      *)
(*   [t |-> "alt", alts]           (?:p1|p2|...), leftmost first           *)
(* Positions are 1-based; a match from pos returns the position after its  *)
(* last character, and 0 when there is none.                               *)
(***************************************************************************)
Cls(set, min, max) == [t |-> "cls", set |-> set, min |-> min, max |-> max]
One(set) == Cls(set, 1, 1)
Opt(set) == Cls(set, 0, 1)
Plus(set) == Cls(set, 1, -1)
WB == [t |-> "wb"]
Alt(alts) == [t |-> "alt", alts |-> alts]
\* a literal string, as a pattern
Lit(s) == <<[t |-> "lit", s |-> s]>>

IsWordAt(txt, p) == p >= 1 /\ p <= Len(txt) /\ Ch(txt, p) \in WordCh

\* \b between the characters at p-1 and p
Boundary(txt, p) == IsWordAt(txt, p - 1) # IsWordAt(txt, p)

\* how many characters from pos on are in set, at most max
RunLen(txt, pos, set, max) ==
    LET last == IF max = -1 THEN Len(txt) ELSE Min(Len(txt), pos + max - 1)
        stop == {p \in pos..last : Ch(txt, p) \notin set}
    IN  (IF stop = {} THEN last + 1 ELSE SetMin(stop)) - pos

RECURSIVE MatchAt(_, _, _)
RECURSIVE TryAlt(_, _, _, _)

\* the repetition took n characters and gives them back one at a time down
\* to min: the rest matches after the largest count after which it can
TryRep(txt, pos, n, min, rest) ==
    LET after == [k \in min..n |-> MatchAt(txt, pos + k, rest)]
        ok == {k \in min..n : after[k] # 0}
    IN  IF ok = {} THEN 0 ELSE after[SetMax(ok)]

TryAlt(txt, pos, alts, rest) ==
    IF alts = <<>> THEN 0
    ELSE LET e == MatchAt(txt, pos, Head(alts) \o rest)
         IN  IF e # 0 THEN e ELSE TryAlt(txt, pos, Tail(alts), rest)

MatchAt(txt, pos, pat) ==
    IF pat = <<>> THEN pos
    ELSE LET it == Head(pat)
             rest == Tail(pat)
         IN  CASE it.t = "lit" ->
                    IF /\ pos + Len(it.s) - 1 <= Len(txt)
                       /\ SubSeq(txt, pos, pos + Len(it.s) - 1) = it.s
                    THEN MatchAt(txt, pos + Len(it.s), rest) ELSE 0
               [] it.t = "wb" ->
                    IF Boundary(txt, pos) THEN MatchAt(txt, pos, rest) ELSE 0
               [] it.t = "cls" ->
                    TryRep(txt, pos, RunLen(txt, pos, it.set, it.max), it.min, rest)
               [] it.t = "alt" ->
                    TryAlt(txt, pos, it.alts, rest)

RECURSIVE ScanFrom(_, _)
\* ends[p] is where the match starting at p ends (0: none): the scan takes
\* the first start at or after pos, and goes on after that match
ScanFrom(ends, pos) ==
    LET starts == {p \in pos..Len(ends) : ends[p] # 0}
    IN  IF starts = {} THEN <<>>
        ELSE LET s == SetMin(starts)
             IN  << <<s - 1, ends[s] - 1>> >> \o ScanFrom(ends, ends[s])

\* re.finditer: the non-overlapping matches, scanning from left to right,
\* as <<start, end>> with 0-based start and exclusive end (Match.start(),
\* Match.end()).  No pattern of the source matches the empty string.
FindSpans(txt, pat) ==
    ScanFrom([p \in 1..Len(txt) |-> MatchAt(txt, p, pat)], 1)

\* re.findall of a pattern without capturing groups: the matched strings
findall(pat, txt) ==
    LET sp == FindSpans(txt, pat)
    IN  [i \in 1..Len(sp) |-> Slice(txt, sp[i][1], sp[i][2])]

(***************************************************************************)
(* What a pattern can match, without the priorities of the matcher: the    *)
(* positions at which some match of pat that starts in from can end.       *)
(***************************************************************************)
RECURSIVE EndsOf(_, _, _)
EndsOf(txt, from, pat) ==
    IF pat = <<>> THEN from
    ELSE LET it == Head(pat)
             next ==
                 CASE it.t = "lit" ->
                        {p + Len(it.s) : p \in {q \in from :
                            /\ q + Len(it.s) - 1 <= Len(txt)
                            /\ SubSeq(txt, q, q + Len(it.s) - 1) = it.s}}
                   [] it.t = "wb" -> {p \in from : Boundary(txt, p)}
                   [] it.t = "cls" ->
                        UNION {{p + n : n \in it.min..RunLen(txt, p, it.set, it.max)} :
                                 p \in from}
                   [] it.t = "alt" ->
                        UNION {EndsOf(txt, from, it.alts[i]) : i \in 1..Len(it.alts)}
         IN  EndsOf(txt, next, Tail(pat))

\* the positions of text at which a match of pat starts
MatchStarts(txt, pat) == {i \in 1..Len(txt) : EndsOf(txt, {i}, pat) # {}}

\* value is a match of pat in text that starts where the first match starts
IsFirstMatch(value, txt, pat) ==
    /\ MatchStarts(txt, pat) # {}
    /\ LET first == SetMin(MatchStarts(txt, pat))
       IN  \E e \in EndsOf(txt, {first}, pat) : value = SubSeq(txt, first, e - 1)

\* value is one match of pat in text
IsOneMatch(value, txt, pat) ==
    \E i \in MatchStarts(txt, pat) :
        \E e \in EndsOf(txt, {i}, pat) : value = SubSeq(txt, i, e - 1)

(***************************************************************************)
(* Contact information (extract_information, lines 69-80)                  *)
(***************************************************************************)
\* r'\b[A-Za-z0-9._%+-]+@[A-Za-z0-9.-]+\.[A-Z|a-z]{2,}\b'
email_pattern ==
    <<WB, Plus(Letter \cup Digit \cup {".", "_", "%", "+", "-"}), One({"@"}),
      Plus(Letter \cup Digit \cup {".", "-"}), One({"."}),
      Cls(Letter \cup {"|"}, 2, -1), WB>>

\* r'\b(?:\+\d{1,2}\s?)?\(?\d{3}\)?[\s.-]?\d{3}[\s.-]?\d{4}\b'
phone_pattern ==
    <<WB, Alt(<< <<One({"+"}), Cls(Digit, 1, 2), Opt(Space)>>, <<>> >>),
      Opt({"("}), Cls(Digit, 3, 3), Opt({")"}), Opt(Space \cup {".", "-"}),
      Cls(Digit, 3, 3), Opt(Space \cup {".", "-"}), Cls(Digit, 4, 4), WB>>

\* the sentinel both fields start with (line 69)
NoContact == ""

\* taking the last match instead of the first
LastOr(matches, default) == IF matches # <<>> THEN matches[Len(matches)] ELSE default

\* lines 74-75, 79-80
FirstOr(matches, default) == IF matches # <<>> THEN matches[1] ELSE default

\* a phone field that starts as None while the email field starts as ""
ContactInfoPhoneNone(txt) ==
    [email |-> FirstOr(findall(email_pattern, txt), NoContact),
     phone |-> FirstOr(findall(phone_pattern, txt), "None")]

ContactInfo(txt) ==
    [email |-> FirstOr(findall(email_pattern, txt), NoContact),
     phone |-> FirstOr(findall(phone_pattern, txt), NoContact)]

(***************************************************************************)
(* The entity tagger's result (doc.ents): a sequence, in document order,   *)
(* of spans [start_char, end_char, label_], 0-based, end exclusive.        *)
(***************************************************************************)
EntText(txt, ent) == Slice(txt, ent.start_char, ent.end_char)

\* text[max(0, ent.start_char - w):min(len(text), ent.end_char + w)]
Window(txt, ent, w) ==
    Slice(txt, Max(0, ent.start_char - w), Min(Len(txt), ent.end_char + w))

\* any(k in s for k in keys)
AnyIn(keys, s) == \E i \in 1..Len(keys) : Contains(s, keys[i])

\* any(sub in entry for entry in bucket)
InSome(sub, bucket) == \E i \in 1..Len(bucket) : Contains(bucket[i], sub)

(***************************************************************************)
(* Skills (lines 83-132)                                                   *)
(***************************************************************************)
skill_keywords ==
    <<
      "python", "java", "javascript", "react", "angular", "vue",
      "node.js", "sql", "nosql", "mongodb", "mysql", "postgresql",
      "aws", "azure", "gcp", "docker", "kubernetes", "terraform",
      "ci/cd", "jenkins", "git", "machine learning", "deep learning", "nlp",
      "computer vision", "data science", "data analysis", "data visualization", "tableau", "power bi",
      "excel", "tensorflow", "pytorch", "keras", "scikit-learn", "pandas",
      "numpy", "hadoop", "spark", "airflow", "kubernetes", "docker",
      "rest api", "aws", "azure", "gcp", "google cloud", "cloud computing",
      "serverless", "lambda", "ec2", "s3", "dynamodb", "devops",
      "ci/cd", "jenkins", "github actions", "terraform", "ansible", "puppet",
      "chef", "kubernetes", "docker", "microservices", "html", "css",
      "javascript", "typescript", "react", "angular", "vue", "node.js",
      "express", "django", "flask", "spring", "asp.net", "php",
      "laravel", "ruby on rails", "rest api", "graphql", "responsive design", "sql",
      "mysql", "postgresql", "mongodb", "nosql", "oracle", "database design",
      "data modeling", "etl", "data warehousing", "redis", "elasticsearch", "project management",
      "agile", "scrum", "jira", "confluence", "leadership", "team management",
      "communication", "problem-solving", "critical thinking", "teamwork", "time management", "stakeholder management"
    >>

tech_indicators ==
    <<"framework", "language", "library", "tool", "platform", "software",
      "system", "technology">>

SkillWindow == 50

\* lines 117-119
skill_keywords_lower == [i \in 1..Len(skill_keywords) |-> lower(skill_keywords[i])]

KeywordSkills(txt) ==
    LET text_lower == lower(txt)
    IN  {skill_keywords[i] : i \in {j \in 1..Len(skill_keywords) :
                                       Contains(text_lower, skill_keywords_lower[j])}}

\* lines 122-129
EntitySkills(txt, ents) ==
    {EntText(txt, ents[i]) : i \in {j \in 1..Len(ents) :
        /\ ents[j].label_ \in {"ORG", "PRODUCT"}
        /\ AnyIn(tech_indicators, lower(Window(txt, ents[j], SkillWindow)))}}

(***************************************************************************)
(* Education (lines 134-154)                                               *)
(***************************************************************************)
education_keywords ==
    <<"university", "college", "institute", "school", "academy", "bachelor",
      "master", "phd", "degree", "diploma", "certificate", "certification">>

\* r'(?:(?:Bachelor|Master|PhD|B\.S\.|M\.S\.|M\.B\.A\.|B\.A\.|B\.Sc\.|M\.Sc\.
\*   |B\.Tech|M\.Tech)\s+(?:of|in)\s+[A-Za-z\s]+)|(?:[A-Za-z\s]+University
\*   |College|Institute)'
education_pattern ==
    <<Alt(<< <<Alt(<<Lit("Bachelor"), Lit("Master"), Lit("PhD"), Lit("B.S."),
                     Lit("M.S."), Lit("M.B.A."), Lit("B.A."), Lit("B.Sc."),
                     Lit("M.Sc."), Lit("B.Tech"), Lit("M.Tech")>>),
               Plus(Space), Alt(<<Lit("of"), Lit("in")>>), Plus(Space),
               Plus(Letter \cup Space)>>,
             <<Alt(<< <<Plus(Letter \cup Space)>> \o Lit("University"),
                      Lit("College"), Lit("Institute")>>)>> >>)>>

EduWindow == 100

\* lines 139-141: every match is appended, stripped
EducationMatches(txt) ==
    LET m == findall(education_pattern, txt)
    IN  [i \in 1..Len(m) |-> strip(m[i])]

IsEduEntity(txt, ent) == AnyIn(education_keywords, lower(EntText(txt, ent)))

RECURSIVE EducationEntities(_, _, _)
\* lines 143-154, from the education list so far
EducationEntities(txt, ents, edu) ==
    IF ents = <<>> THEN edu
    ELSE LET ent == Head(ents)
             add == /\ ent.label_ = "ORG"
                    /\ IsEduEntity(txt, ent)
                    /\ ~InSome(EntText(txt, ent), edu)
         IN  EducationEntities(txt, Tail(ents),
                 IF add THEN Append(edu, strip(Window(txt, ent, EduWindow)))
                 ELSE edu)

(***************************************************************************)
(* Experience (lines 156-223)                                              *)
(***************************************************************************)
job_title_keywords ==
    <<"engineer", "developer", "manager", "director", "analyst", "specialist",
      "consultant", "coordinator", "administrator", "architect", "designer",
      "scientist", "head", "lead", "senior", "junior", "intern", "officer">>

exp_headers ==
    <<"experience", "work experience", "professional experience", "employment history">>

next_section_keywords == <<"education", "skills", "projects", "certifications", "references">>

ExpWindow == 150

Months ==
    <<Lit("Jan"), Lit("January"), Lit("Feb"), Lit("February"), Lit("Mar"),
      Lit("March"), Lit("Apr"), Lit("April"), Lit("May"), Lit("Jun"),
      Lit("June"), Lit("Jul"), Lit("July"), Lit("Aug"), Lit("August"),
      Lit("Sep"), Lit("September"), Lit("Oct"), Lit("October"), Lit("Nov"),
      Lit("November"), Lit("Dec"), Lit("December"),
      <<Cls(Digit, 1, 2), One({"/"}), Cls(Digit, 1, 2)>>,
      <<Cls(Digit, 4, 4)>> >>

\* r'\b(Jan|January|...|\d{1,2}/\d{1,2}|\d{4})[-\s]+(to|-)[-\s]+(Jan|January
\*   |...|\d{1,2}/\d{1,2}|\d{4}|Present|present|Current|current)\b'
date_pattern ==
    <<WB, Alt(Months), Plus(Space \cup {"-"}), Alt(<<Lit("to"), Lit("-")>>),
      Plus(Space \cup {"-"}),
      Alt(Months \o <<Lit("Present"), Lit("present"), Lit("Current"), Lit("current")>>),
      WB>>

\* s.find(sub, start): the lowest 0-based index >= start, -1 when there is none
Find(s, sub, start) ==
    LET at == {i \in start..(Len(s) - Len(sub)) : SubSeq(s, i + 1, i + Len(sub)) = sub}
    IN  IF at = {} THEN -1 ELSE SetMin(at)

\* lines 175-184
NextSectionStart(txt, text_lower, header) ==
    LET from == Find(text_lower, header, 0) + Len(header)
        found == {Find(text_lower, next_section_keywords[i], from) :
                    i \in 1..Len(next_section_keywords)} \ {-1}
    IN  IF found = {} THEN Len(txt) ELSE SetMin(found)

\* job blocks that all run to the end of the section
JobBlocksToEnd(exp_section) ==
    LET date_matches == FindSpans(exp_section, date_pattern)
    IN  [i \in 1..Len(date_matches) |->
            strip(Slice(exp_section, date_matches[i][1], Len(exp_section)))]

\* lines 192-205: the job blocks of one experience section
JobBlocks(exp_section) ==
    LET date_matches == FindSpans(exp_section, date_pattern)
        n == Len(date_matches)
    IN  [i \in 1..n |->
            strip(Slice(exp_section, date_matches[i][1],
                        IF i < n THEN date_matches[i + 1][1] ELSE Len(exp_section)))]

RECURSIVE ExperienceBlocks(_, _, _)
\* lines 169-205: the blocks of every header found, one header after another
ExperienceBlocks(txt, text_lower, headers) ==
    IF headers = <<>> THEN <<>>
    ELSE LET header == Head(headers)
             section_start == Find(text_lower, header, 0)
             exp_section ==
                 strip(Slice(txt, section_start, NextSectionStart(txt, text_lower, header)))
         IN  (IF Contains(text_lower, header) THEN JobBlocks(exp_section) ELSE <<>>)
             \o ExperienceBlocks(txt, text_lower, Tail(headers))

RECURSIVE ExperienceEntities(_, _, _)
\* lines 213-223, from the experience list so far
ExperienceEntities(txt, ents, exps) ==
    IF ents = <<>> THEN exps
    ELSE LET ent == Head(ents)
             context == Window(txt, ent, ExpWindow)
             add == /\ ent.label_ = "ORG"
                    /\ ~IsEduEntity(txt, ent)
                    /\ AnyIn(job_title_keywords, lower(context))
                    /\ ~InSome(EntText(txt, ent), exps)
         IN  ExperienceEntities(txt, Tail(ents),
                 IF add THEN Append(exps, strip(context)) ELSE exps)

\* lines 208-223
Experience(txt, ents, blocks) ==
    IF blocks # <<>> THEN blocks
    ELSE ExperienceEntities(txt, ents, <<>>)

\* Where in the text the job blocks of a header lie: for each date range
\* found in the header's section, the positions [from, to) from its start to
\* the start of the next date range, or to the end of the section.
SectionExtents(txt, header) ==
    LET text_lower == lower(txt)
        section_start == Find(text_lower, header, 0)
        exp_section ==
            strip(Slice(txt, section_start, NextSectionStart(txt, text_lower, header)))
        d == FindSpans(exp_section, date_pattern)
    IN  IF section_start = -1 THEN {}
        ELSE {<<section_start + d[i][1],
                section_start + (IF i < Len(d) THEN d[i + 1][1] ELSE Len(exp_section))>> :
                  i \in 1..Len(d)}

\* the headers that occur in the text
HeadersIn(txt) ==
    {h \in 1..Len(exp_headers) : Contains(lower(txt), exp_headers[h])}

(***************************************************************************)
(* The enhancement stage (lines 226-274).  The answers of the language     *)
(* model are inputs.                                                       *)
(***************************************************************************)
RECURSIVE Split(_, _)
\* re.split on a class of single characters / str.split on one character
Split(s, seps) ==
    LET at == {i \in 1..Len(s) : Ch(s, i) \in seps}
    IN  IF at = {} THEN <<s>>
        ELSE <<SubSeq(s, 1, SetMin(at) - 1)>> \o Split(SubSeq(s, SetMin(at) + 1, Len(s)), seps)

\* [x.strip() for x in parts if x.strip()]
StrippedNonEmpty(parts) ==
    SelectSeq([i \in 1..Len(parts) |-> strip(parts[i])], LAMBDA x : x # "")

\* r'[,\n•-]'; the texts of the model are ASCII, the bullet never occurs
SkillSeparators == {",", "\n", "-"}

SkillMaxLen == 50

ExperienceMinLen == 20

\* line 250
RagSkillCandidates(response) == StrippedNonEmpty(Split(response, SkillSeparators))

\* lines 248-253: what the skills answer adds to extracted_skills
RagSkills(response) ==
    LET rag_skills == RagSkillCandidates(response)
    IN  {rag_skills[i] : i \in {j \in 1..Len(rag_skills) : Len(rag_skills[j]) < SkillMaxLen}}

\* lines 259, 268
RagLines(response) == StrippedNonEmpty(Split(response, {"\n"}))

RECURSIVE RagEducation(_, _)
\* lines 260-262
RagEducation(lines, edu) ==
    IF lines = <<>> THEN edu
    ELSE RagEducation(Tail(lines),
             IF ~InSome(Head(lines), edu) THEN Append(edu, Head(lines))
             ELSE edu)

RECURSIVE RagExperience(_, _)
\* lines 269-271
RagExperience(lines, exps) ==
    IF lines = <<>> THEN exps
    ELSE RagExperience(Tail(lines),
             IF Len(Head(lines)) > ExperienceMinLen /\ ~InSome(Head(lines), exps)
             THEN Append(exps, Head(lines))
             ELSE exps)

(***************************************************************************)
(* The record (lines 276-282); list(set(x)) is the set of x's elements     *)
(***************************************************************************)
ListSet(list) == {list[i] : i \in 1..Len(list)}

\* a builder that leaves an empty bucket out of the record
RecordOmittingEmpty(txt, skill_list, edu, exps, contact) ==
    LET full == [raw_text |-> txt,
                 skills |-> skill_list,
                 education |-> ListSet(edu),
                 experience |-> ListSet(exps),
                 contact_info |-> contact]
        empty == {f \in {"skills", "education", "experience"} : full[f] = {}}
    IN  [f \in DOMAIN full \ empty |-> full[f]]

Record(txt, skill_list, edu, exps, contact) ==
    [raw_text |-> txt,
     skills |-> skill_list,
     education |-> ListSet(edu),
     experience |-> ListSet(exps),
     contact_info |-> contact]

NoRecord == [raw_text |-> "", skills |-> {}, education |-> {}, experience |-> {},
             contact_info |-> [email |-> NoContact, phone |-> NoContact]]

(***************************************************************************)
(* Inputs                                                                  *)
(***************************************************************************)
ExampleText == "Contact: jane@example.com, (415) 555-0100. Worked as Software Engineer at Acme Corp from Jan 2019 to Dec 2021. Skills: Python, AWS, Docker. Bachelor of Science in Computer Science, State University."

\* at most this many fragments of ContactFragments make a text
MaxContactFrags == 3
\* at most this many fragments of BodyFragments make a text
MaxBodyFrags == 2
\* at most this many spans in the tagger's result
MaxEnts == 1

ContactFragments ==
    {"jane@example.com", "bob@x.io", "(415) 555-0100", "a+1 ", " "}

BodyFragments ==
    {"Python language. ", "MIT University. ", "IT University. ",
     "Mit University. ", "Experience 2019 to 2021 Acme Corp. ",
     "Google Cloud Platform engineer. "}

RECURSIVE Concats(_, _)
\* the concatenations of at most n fragments
Concats(frags, n) ==
    IF n = 0 THEN {""}
    ELSE LET shorter == Concats(frags, n - 1)
         IN  shorter \cup {t \o f : t \in shorter, f \in frags}

Texts ==
    {ExampleText} \cup Concats(ContactFragments, MaxContactFrags)
                  \cup Concats(BodyFragments, MaxBodyFrags)

\* at most this many fragments of BlockFragments make a text
MaxBlockFrags == 3

\* headings, date ranges and a following section
BlockFragments ==
    {"Work ", "Experience 2019 to 2021 Acme Inc. ", "Jan to Present Lead\n",
     "Employment History ", "Education MIT "}

BlockTexts == Concats(BlockFragments, MaxBlockFrags)

\* the texts of two invocations on one parser
TwoTexts == {"Python language. ", "MIT University. ", "Experience 2019 to 2021 Acme Corp. "}

\* what is extracted from an uploaded file
UploadTexts == {"", "jane@example.com", "Python language. MIT University. "}

\* what the analysis agent may answer
Analyses == {"OVERALL ASSESSMENT", "Add measurable results."}

RECURSIVE Repeat(_, _)
\* s * n
Repeat(s, n) == IF n = 0 THEN "" ELSE s \o Repeat(s, n - 1)

\* at most this many spans in the tagger's result, for the texts of OrderTexts
MaxOrderEnts == 2

\* texts with two organisations near a job title, one of them longer than
\* the window of 150 characters around a span
OrderTexts ==
    {"Google, Acme Corp engineer. ",
     "Google, Acme Corp engineer. " \o Repeat("*", 140),
     "Python language. MIT University. "}

\* the strings the tagger may tag, wherever they occur
EntityNames == {"Python", "MIT University", "Acme Corp", "Google", "Cloud Platform"}

Labels == {"ORG", "PRODUCT", "PERSON"}

Spans(txt) ==
    {[start_char |-> i, end_char |-> i + Len(n), label_ |-> l] :
        <<i, n, l>> \in {x \in (0..Len(txt)) \X EntityNames \X Labels :
                            /\ x[1] + Len(x[2]) <= Len(txt)
                            /\ Slice(txt, x[1], x[1] + Len(x[2])) = x[2]}}

RECURSIVE TaggerResults(_, _)
\* the possible doc.ents: at most n spans, disjoint, in document order
TaggerResults(txt, n) ==
    IF n = 0 THEN {<<>>}
    ELSE LET shorter == TaggerResults(txt, n - 1)
         IN  shorter \cup
             {Append(s, e) : <<s, e>> \in {x \in shorter \X Spans(txt) :
                 x[1] = <<>> \/ x[1][Len(x[1])].end_char <= x[2].start_char}}

SkillsAnswers == {"", "Go, Python"}
EducationAnswers == {"", "BSc Physics, MIT\nMIT\nmit"}
ExperienceAnswers == {"", "Engineer at Acme Corp, 2019 to 2021\nAcme Corp\nInitech, QA\n"}

(***************************************************************************)
(* State                                                                   *)
(***************************************************************************)
VARIABLES
    key,                     \* OPENAI_API_KEY is set (config.py)
    use_rag,                 \* ResumeParser.use_rag
    pc,                      \* where the parser is
    text,                    \* the argument of parse_resume
    doc_ents,                \* what the tagger made of text (doc.ents)
    extracted_skills, skills, education, experience_blocks, experience,
    contact_info,            \* the locals of extract_information
    rag_skills_response, rag_education_response, rag_experience_response,
    rag_trace,               \* the steps of the enhancement stage started
    rag_failed,              \* the except clause of line 273 ran
    heur,                    \* the buckets when the heuristic stages ended
    outcome,                 \* "pending", "None", "record" or "raised"
    result,                  \* the record returned
    other,                   \* a second invocation on the same parser, not running
    resume_analysis,         \* app.py: what the analysis agent answered
    session,                 \* app.py: st.session_state.resume_data
    saved_jobs_dir,          \* job_storage.py: the files of saved_jobs/
    clock,                   \* datetime.now(), in seconds
    ui,                      \* app.py: per browser session, saved_jobs and selected_job
    storage_call,            \* the last call of job_storage.py and what it returned
    search_pc,               \* job_search_agent.py: where search_jobs is
    platforms, count,        \* its arguments
    api_jobs, all_jobs,      \* its locals
    search_calls,            \* the searches it has asked for, in order
    jobs,                    \* what it returned
    resume_data,             \* the record the agents and the keyword helper are given
    agent_call               \* the last call of an agent or helper and what it returned

locals == <<extracted_skills, skills, education, experience_blocks, experience,
            contact_info>>
answers == <<rag_skills_response, rag_education_response, rag_experience_response>>
\* the saved-jobs store and the sessions that use it
store_vars == <<saved_jobs_dir, clock, ui, storage_call>>
\* JobSearchAgent.search_jobs
search_vars == <<search_pc, platforms, count, api_jobs, all_jobs, search_calls, jobs>>
\* the calls with a resume record
helper_vars == <<resume_data, agent_call>>
\* what the parser and the upload handler leave alone
elsewhere == <<store_vars, search_vars, helper_vars>>
\* the parser and the upload handler
parser_vars == <<key, use_rag, pc, text, doc_ents, locals, answers, rag_trace,
                 rag_failed, heur, outcome, result, other, resume_analysis, session>>
\* what the store's steps, the search's steps and the helpers' steps leave alone
not_store == <<parser_vars, search_vars, helper_vars>>
not_search == <<parser_vars, store_vars, helper_vars>>
not_helpers == <<parser_vars, store_vars, search_vars>>
\* what the parser's own steps leave alone
outside == <<other, resume_analysis, session, elsewhere>>
vars == <<key, use_rag, pc, text, doc_ents, locals, answers, rag_trace, rag_failed,
          heur, outcome, result, outside>>

NoContactInfo == [email |-> NoContact, phone |-> NoContact]
NoHeur == [skills |-> {}, education |-> <<>>, experience |-> <<>>]

\* the state of an invocation of parse_resume that has not started:
\* its argument, and the locals of lines 65-69, 114 and 164
FreshFrame(argument) ==
    [pc |-> "ready", text |-> argument, doc_ents |-> <<>>,
     extracted_skills |-> {}, skills |-> {}, education |-> <<>>,
     experience_blocks |-> <<>>, experience |-> <<>>, contact_info |-> NoContactInfo,
     rag_skills_response |-> "", rag_education_response |-> "",
     rag_experience_response |-> "", rag_trace |-> <<>>, rag_failed |-> FALSE,
     heur |-> NoHeur, outcome |-> "pending", result |-> NoRecord]

\* app.py line 234
NoSession == <<>>

\* no call of job_storage.py yet
NoCall == [op |-> "none", title |-> "", company |-> "", before |-> <<>>, after |-> <<>>,
           ret |-> ""]

\* job_storage.py line 6: an empty saved_jobs directory, and no browser session
StoreIdle ==
    /\ saved_jobs_dir = <<>>
    /\ clock = 0
    /\ ui = <<>>
    /\ storage_call = NoCall

\* no search asked for
SearchIdle ==
    /\ search_pc = <<"idle", 0>>
    /\ platforms = <<>> /\ count = 0
    /\ api_jobs = <<>> /\ all_jobs = <<>>
    /\ search_calls = <<>>
    /\ jobs = <<>>

\* no call of an agent or of the keyword helper yet
NoAgentCall == [op |-> "none"]

\* no resume record, and no call with one
HelpersIdle ==
    /\ resume_data = <<>>
    /\ agent_call = NoAgentCall

\* nothing but the parser runs
ElsewhereIdle == StoreIdle /\ SearchIdle /\ HelpersIdle

\* a parser about to be constructed, a first invocation for one of texts,
\* and a second one for one of others
ParserStart(texts, others) ==
    /\ key \in BOOLEAN
    /\ use_rag = FALSE
    /\ pc = "new"
    /\ text \in texts
    /\ other \in {FreshFrame(t) : t \in others}
    /\ resume_analysis = ""
    /\ session = NoSession
    /\ doc_ents = <<>>
    /\ extracted_skills = {} /\ skills = {} /\ education = <<>>
    /\ experience_blocks = <<>> /\ experience = <<>>
    /\ contact_info = NoContactInfo
    /\ rag_skills_response = "" /\ rag_education_response = ""
    /\ rag_experience_response = ""
    /\ rag_trace = <<>> /\ rag_failed = FALSE
    /\ heur = NoHeur
    /\ outcome = "pending"
    /\ result = NoRecord

Start(texts, others) == ParserStart(texts, others) /\ ElsewhereIdle

\* one parser, one invocation at a time
Init == Start(Texts, {""})

\* one parser and two invocations, for the same text or for two texts
InitTwo == Start(TwoTexts, TwoTexts)

\* the parser of the application and the text of an uploaded file
InitUpload == Start(UploadTexts, {""})

\* one parser, one invocation at a time, for texts with experience sections
InitBlocks == Start(BlockTexts, {""})

\* a parser that enables the enhancement stage whatever the credential
UseRagIgnoringKey(credential) == {TRUE, FALSE}

\* lines 27-35: what use_rag can be after __init__; with a credential the
\* initialisation of the clients may still raise, and leaves it False
UseRagAfterInit(credential) == IF credential THEN {TRUE, FALSE} ELSE {FALSE}

\* __init__ (lines 25-35)
Construct ==
    /\ pc = "new"
    /\ pc' = "ready"
    /\ use_rag' \in UseRagAfterInit(key)
    /\ UNCHANGED <<key, text, doc_ents, locals, answers, rag_trace, rag_failed,
                   heur, outcome, result>>
    /\ UNCHANGED outside

\* a parse_resume that hands the empty text to extract_information, where the
\* tagger is the first to see it
ParseEmptyTagging ==
    /\ pc = "ready" /\ text = ""
    /\ pc' = "done"
    /\ outcome' = "raised"
    /\ UNCHANGED <<key, use_rag, text, doc_ents, locals, answers, rag_trace,
                   rag_failed, heur, result>>
    /\ UNCHANGED outside

\* parse_resume (lines 53-54): no text ("" and None alike are not text)
ParseEmpty ==
    /\ pc = "ready" /\ text = ""
    /\ pc' = "done"
    /\ outcome' = "None"
    /\ UNCHANGED <<key, use_rag, text, doc_ents, locals, answers, rag_trace,
                   rag_failed, heur, result>>
    /\ UNCHANGED outside

\* line 63: the tagger raises, and nothing catches it
TaggerRaises ==
    /\ pc = "ready" /\ text # ""
    /\ pc' = "done"
    /\ outcome' = "raised"
    /\ UNCHANGED <<key, use_rag, text, doc_ents, locals, answers, rag_trace,
                   rag_failed, heur, result>>
    /\ UNCHANGED outside

\* The tagger answers (line 63); its answer is first read at line 122, and
\* is chosen there.  What the heuristic stages take from the text alone:
\* lines 65-80 (contact), 117-119 (keywords), 139-141 (education pattern)
\* and 164-205 (job blocks).
PatternStage ==
    /\ pc = "ready" /\ text # ""
    /\ pc' = "entities"
    /\ contact_info' = ContactInfo(text)
    /\ extracted_skills' = KeywordSkills(text)
    /\ education' = EducationMatches(text)
    /\ experience_blocks' = ExperienceBlocks(text, lower(text), exp_headers)
    /\ UNCHANGED <<key, use_rag, text, doc_ents, skills, experience, answers,
                   rag_trace, rag_failed, heur, outcome, result>>
    /\ UNCHANGED outside

\* an extract_information that enters the enhancement stage whatever the flag
AfterHeuristicsAlways(flag) == "rag_split"

\* line 226: the enhancement stage is entered only when self.use_rag
AfterHeuristics(flag) == IF flag THEN "rag_split" ELSE "build"

\* What the heuristic stages take from the tagged spans: lines 122-132
\* (skills), 143-154 (education) and 208-223 (experience).
EntityStageFrom(tagged) ==
    /\ pc = "entities"
    /\ \E ents \in tagged :
        /\ pc' = AfterHeuristics(use_rag)
        /\ doc_ents' = ents
        /\ extracted_skills' = extracted_skills \cup EntitySkills(text, ents)
        /\ skills' = extracted_skills'
        /\ education' = EducationEntities(text, ents, education)
        /\ experience' = Experience(text, ents, experience_blocks)
        /\ heur' = [skills |-> skills', education |-> education',
                    experience |-> experience']
        /\ UNCHANGED <<key, use_rag, text, experience_blocks, contact_info, answers,
                       rag_trace, rag_failed, outcome, result, outside>>

\* doc = nlp(text) (line 63) answers with at most MaxEnts spans
EntityStage == EntityStageFrom(TaggerResults(text, MaxEnts))

\* the same, for a tagger that answers with at most MaxOrderEnts spans
EntityStageTwo == EntityStageFrom(TaggerResults(text, MaxOrderEnts))

RagStep(from, to) ==
    /\ pc = from
    /\ pc' = to
    /\ rag_trace' = Append(rag_trace, from)
    /\ UNCHANGED <<key, use_rag, text, doc_ents, rag_failed, heur, outcome, result>>
    /\ UNCHANGED outside

\* lines 229-233
RagSplit ==
    /\ RagStep("rag_split", "rag_index")
    /\ UNCHANGED <<locals, answers>>

\* lines 236-244
RagIndex ==
    /\ RagStep("rag_index", "rag_skills")
    /\ UNCHANGED <<locals, answers>>

\* lines 247-253
RagSkillsQuery ==
    /\ pc = "rag_skills"
    /\ \E response \in SkillsAnswers :
        /\ RagStep("rag_skills", "rag_education")
        /\ rag_skills_response' = response
        /\ extracted_skills' = extracted_skills \cup RagSkills(response)
        /\ UNCHANGED <<skills, education, experience_blocks, experience, contact_info,
                       rag_education_response, rag_experience_response>>

\* lines 256-262
RagEducationQuery ==
    /\ pc = "rag_education"
    /\ \E response \in EducationAnswers :
        /\ RagStep("rag_education", "rag_experience")
        /\ rag_education_response' = response
        /\ education' = RagEducation(RagLines(response), education)
        /\ UNCHANGED <<extracted_skills, skills, experience_blocks, experience,
                       contact_info, rag_skills_response, rag_experience_response>>

\* lines 265-271
RagExperienceQuery ==
    /\ pc = "rag_experience"
    /\ \E response \in ExperienceAnswers :
        /\ RagStep("rag_experience", "build")
        /\ rag_experience_response' = response
        /\ experience' = RagExperience(RagLines(response), experience)
        /\ UNCHANGED <<extracted_skills, skills, education, experience_blocks,
                       contact_info, rag_skills_response, rag_education_response>>

RagPcs == {"rag_split", "rag_index", "rag_skills", "rag_education", "rag_experience"}

\* lines 273-274: the step at pc raises, the except clause logs it
RagRaises ==
    /\ pc \in RagPcs
    /\ pc' = "build"
    /\ rag_trace' = Append(rag_trace, pc)
    /\ rag_failed' = TRUE
    /\ UNCHANGED <<key, use_rag, text, doc_ents, locals, answers, heur, outcome, result>>
    /\ UNCHANGED outside

\* lines 276-282 and 59
Return ==
    /\ pc = "build"
    /\ pc' = "done"
    /\ result' = Record(text, skills, education, experience, contact_info)
    /\ outcome' = "record"
    /\ UNCHANGED <<key, use_rag, text, doc_ents, locals, answers, rag_trace,
                   rag_failed, heur>>
    /\ UNCHANGED outside

\* the caller has its answer; the locals of the invocation are gone, and the
\* parser is ready for the next call
NextCall ==
    /\ pc = "done"
    /\ pc' = "ready"
    /\ doc_ents' = <<>>
    /\ extracted_skills' = {} /\ skills' = {} /\ education' = <<>>
    /\ experience_blocks' = <<>> /\ experience' = <<>>
    /\ contact_info' = NoContactInfo
    /\ rag_skills_response' = "" /\ rag_education_response' = ""
    /\ rag_experience_response' = ""
    /\ rag_trace' = <<>> /\ rag_failed' = FALSE
    /\ heur' = NoHeur
    /\ outcome' = "pending"
    /\ result' = NoRecord
    /\ UNCHANGED <<key, use_rag, text, outside>>

\* the state of the running invocation: the argument, the position and the
\* locals of extract_information, with what the model remembers of them
Frame ==
    [pc |-> pc, text |-> text, doc_ents |-> doc_ents,
     extracted_skills |-> extracted_skills, skills |-> skills, education |-> education,
     experience_blocks |-> experience_blocks, experience |-> experience,
     contact_info |-> contact_info,
     rag_skills_response |-> rag_skills_response,
     rag_education_response |-> rag_education_response,
     rag_experience_response |-> rag_experience_response,
     rag_trace |-> rag_trace, rag_failed |-> rag_failed,
     heur |-> heur, outcome |-> outcome, result |-> result]

\* The running invocation is suspended and the other one, which has not
\* ended, runs on: it finds its own locals, here frame's, extracted_skills
\* being skills_bucket, and the parser's use_rag being flag.
SwitchTo(frame, skills_bucket, flag) ==
    /\ pc # "new" /\ frame.pc # "done"
    /\ other' = Frame
    /\ pc' = frame.pc /\ text' = frame.text /\ doc_ents' = frame.doc_ents
    /\ extracted_skills' = skills_bucket
    /\ skills' = frame.skills /\ education' = frame.education
    /\ experience_blocks' = frame.experience_blocks /\ experience' = frame.experience
    /\ contact_info' = frame.contact_info
    /\ rag_skills_response' = frame.rag_skills_response
    /\ rag_education_response' = frame.rag_education_response
    /\ rag_experience_response' = frame.rag_experience_response
    /\ rag_trace' = frame.rag_trace /\ rag_failed' = frame.rag_failed
    /\ heur' = frame.heur /\ outcome' = frame.outcome /\ result' = frame.result
    /\ use_rag' = flag
    /\ UNCHANGED <<key, resume_analysis, session, elsewhere>>

\* a parser whose invocations all add to one set of skills
SwitchSharingSkills == SwitchTo(other, extracted_skills, use_rag)

\* a parser that tries the initialisation of its clients again between
\* invocations, and then never fails at it
SwitchRetryingInit == SwitchTo(other, other.extracted_skills, key)

\* Two invocations of parse_resume on one parser, run in any interleaving:
\* extracted_skills and the other buckets are locals (lines 65-69, 114, 164),
\* one set per invocation, and no line of extract_information assigns an
\* attribute of self.
Switch == SwitchTo(other, other.extracted_skills, use_rag)

Next ==
    \/ Construct
    \/ ParseEmpty
    \/ TaggerRaises
    \/ PatternStage
    \/ EntityStage
    \/ RagSplit
    \/ RagIndex
    \/ RagSkillsQuery
    \/ RagEducationQuery
    \/ RagExperienceQuery
    \/ RagRaises
    \/ Return
    \/ NextCall

Spec == Init /\ [][Next]_vars

SpecBlocks == InitBlocks /\ [][Next]_vars

\* one parser, one invocation at a time, the tagger answering with two spans
InitOrder == Start(OrderTexts, {""})

NextOrder ==
    \/ Construct
    \/ TaggerRaises
    \/ PatternStage
    \/ EntityStageTwo
    \/ RagSplit
    \/ RagIndex
    \/ RagSkillsQuery
    \/ RagEducationQuery
    \/ RagExperienceQuery
    \/ RagRaises
    \/ Return
    \/ NextCall

SpecOrder == InitOrder /\ [][NextOrder]_vars

(***************************************************************************)
(* The upload handler of the application (app.py lines 317-334).  The      *)
(* record parse_resume returned and st.session_state.resume_data are one   *)
(* object once line 327 has run: result is that object.                    *)
(***************************************************************************)
UploadPcs == {"analysed", "stored", "annotated", "uploaded"}

\* lines 318 and 332-333: no text was extracted, parse_resume is not called
UploadNoText ==
    /\ pc = "ready" /\ text = ""
    /\ pc' = "no_text"
    /\ UNCHANGED <<key, use_rag, text, doc_ents, locals, answers, rag_trace,
                   rag_failed, heur, outcome, result, outside>>

\* lines 323-324: analyze_resume reads the record and answers a string
Analyze ==
    /\ pc = "done" /\ outcome = "record"
    /\ pc' = "analysed"
    /\ resume_analysis' \in Analyses
    /\ UNCHANGED <<key, use_rag, text, doc_ents, locals, answers, rag_trace,
                   rag_failed, heur, outcome, result, other, session,
                   elsewhere>>

\* line 327
StoreData ==
    /\ pc = "analysed"
    /\ pc' = "stored"
    /\ session' = result
    /\ UNCHANGED <<key, use_rag, text, doc_ents, locals, answers, rag_trace,
                   rag_failed, heur, outcome, result, other, resume_analysis,
                   elsewhere>>

\* line 328: a key is added to the dict, which is the record
StoreAnalysis ==
    /\ pc = "stored"
    /\ pc' = "annotated"
    /\ session' = [f \in DOMAIN session \cup {"analysis"} |->
                      IF f = "analysis" THEN resume_analysis ELSE session[f]]
    /\ result' = session'
    /\ UNCHANGED <<key, use_rag, text, doc_ents, locals, answers, rag_trace,
                   rag_failed, heur, outcome, other, resume_analysis,
                   elsewhere>>

\* line 329
StoreRawText ==
    /\ pc = "annotated"
    /\ pc' = "uploaded"
    /\ session' = [session EXCEPT !["raw_text"] = text]
    /\ result' = session'
    /\ UNCHANGED <<key, use_rag, text, doc_ents, locals, answers, rag_trace,
                   rag_failed, heur, outcome, other, resume_analysis,
                   elsewhere>>

NextUpload ==
    \/ Construct
    \/ UploadNoText
    \/ TaggerRaises
    \/ PatternStage
    \/ EntityStage
    \/ RagSplit
    \/ RagIndex
    \/ RagSkillsQuery
    \/ RagEducationQuery
    \/ RagExperienceQuery
    \/ RagRaises
    \/ Return
    \/ Analyze
    \/ StoreData
    \/ StoreAnalysis
    \/ StoreRawText

SpecUpload == InitUpload /\ [][NextUpload]_vars

NextTwo ==
    \/ Construct
    \/ TaggerRaises
    \/ PatternStage
    \/ EntityStage
    \/ RagSplit
    \/ RagIndex
    \/ RagSkillsQuery
    \/ RagEducationQuery
    \/ RagExperienceQuery
    \/ RagRaises
    \/ Return
    \/ Switch

SpecTwo == InitTwo /\ [][NextTwo]_vars

Returned == pc = "done" /\ outcome = "record"

AllRagSteps == <<"rag_split", "rag_index", "rag_skills", "rag_education", "rag_experience">>

\* an invocation is past the pattern stage and has not ended
Extracting == pc \in {"entities", "build"} \cup RagPcs

(***************************************************************************)
(* C1: when the enhancement stage raised, extract_information returns a    *)
(* record whose skills, education and experience are those the heuristic   *)
(* stages had produced.                                                    *)
(***************************************************************************)
C1_FailedStageLeavesHeuristics ==
    (pc = "done" /\ rag_failed) =>
        /\ outcome = "record"
        /\ result.skills = heur.skills
        /\ result.education = ListSet(heur.education)
        /\ result.experience = ListSet(heur.experience)

(***************************************************************************)
(* C2: when the three queries succeeded, every candidate of the skills     *)
(* answer is among the returned skills, and every line of the education    *)
(* and experience answers that was accepted is in its returned bucket (a   *)
(* line is not accepted when an entry contains it, or, for experience,     *)
(* when it has at most 20 characters).                                     *)
(***************************************************************************)
C2_AnswersMerged ==
    (Returned /\ rag_trace = AllRagSteps /\ ~rag_failed) =>
        /\ \A c \in ListSet(RagSkillCandidates(rag_skills_response)) :
               c \in result.skills
        /\ \A l \in ListSet(RagLines(rag_education_response)) :
               l \in result.education \/ \E e \in result.education : Contains(e, l)
        /\ \A l \in ListSet(RagLines(rag_experience_response)) :
               \/ Len(l) <= ExperienceMinLen
               \/ l \in result.experience
               \/ \E e \in result.experience : Contains(e, l)

(***************************************************************************)
(* C3: parse_resume never raises to its caller.                            *)
(***************************************************************************)
C3_NeverRaises == outcome # "raised"

(***************************************************************************)
(* C4: without a credential the enhancement stage is off and none of its   *)
(* steps is ever started; an invocation raises, if at all, before any      *)
(* stage has run (at the tagger, not for want of the credential); and the  *)
(* record returned for a text has the five fields, filled from the         *)
(* heuristic stages alone.                                                 *)
(***************************************************************************)
C4_NoCredentialHeuristicsOnly ==
    ~key =>
        /\ ~use_rag
        /\ pc \notin RagPcs /\ rag_trace = <<>> /\ ~rag_failed
        /\ outcome = "raised" =>
               /\ extracted_skills = {} /\ education = <<>> /\ experience = <<>>
               /\ contact_info = NoContactInfo
        /\ (pc = "done" /\ text # "" /\ outcome # "raised") =>
               /\ outcome = "record"
               /\ DOMAIN result =
                      {"raw_text", "skills", "education", "experience", "contact_info"}
               /\ DOMAIN result.contact_info = {"email", "phone"}
               /\ result = Record(text, heur.skills, heur.education, heur.experience,
                                  contact_info)

C4_Witness ==
    /\ ~key /\ Returned
    /\ result.skills # {} /\ result.education # {} /\ result.experience # {}

(***************************************************************************)
(* C5: a skill that keyword matching and entity classification both        *)
(* produce, in different letter case, has exactly one entry in the         *)
(* returned skills.                                                        *)
(***************************************************************************)
C5_OneEntryPerSkill ==
    Returned =>
        \A e \in EntitySkills(text, doc_ents) :
            \A k \in KeywordSkills(text) :
                lower(k) = lower(e) =>
                    Cardinality({x \in result.skills : lower(x) = lower(k)}) = 1

(***************************************************************************)
(* C6: the returned education and experience buckets hold no two entries   *)
(* that are equal when letter case is ignored.                             *)
(***************************************************************************)
C6_NoCaseDuplicates ==
    Returned =>
        \A bucket \in {result.education, result.experience} :
            \A a \in bucket : \A b \in bucket : lower(a) = lower(b) => a = b

(***************************************************************************)
(* C7: no entry of the education or experience list was inserted while an  *)
(* entry already in the list contained it: no entry is a substring of an   *)
(* earlier one.                                                            *)
(***************************************************************************)
C7_NoContainedInsert ==
    \A bucket \in {education, experience} :
        \A j \in 1..Len(bucket) : \A i \in 1..(j - 1) : ~Contains(bucket[i], bucket[j])

(***************************************************************************)
(* C8: when the email pattern matches somewhere in the text, the pattern   *)
(* stage sets contact_info.email to the match that starts first; no later  *)
(* step of the invocation changes it, and the record returned carries it.  *)
(***************************************************************************)
C8_Step ==
    /\ (pc' = "entities" /\ MatchStarts(text', email_pattern) # {}) =>
           IsFirstMatch(contact_info'.email, text', email_pattern)
    /\ Extracting => contact_info'.email = contact_info.email
    /\ (Extracting /\ outcome' = "record") =>
           result'.contact_info.email = contact_info.email

C8_EmailIsFirstMatch == [][C8_Step]_vars

C8_Witness ==
    /\ Returned /\ use_rag /\ rag_trace = AllRagSteps /\ ~rag_failed
    /\ result.contact_info.email = "jane@example.com"
    /\ Contains(text, "bob@x.io")

(***************************************************************************)
(* C9: the pattern stage leaves contact_info.phone at "" when the phone    *)
(* pattern matches nowhere in the text, as it leaves contact_info.email at *)
(* "" when the email pattern matches nowhere; otherwise each field is one  *)
(* match of its pattern.  The record returned carries both.                *)
(***************************************************************************)
C9_Step ==
    /\ pc' = "entities" =>
           /\ IF MatchStarts(text', phone_pattern) = {}
              THEN contact_info'.phone = ""
              ELSE IsOneMatch(contact_info'.phone, text', phone_pattern)
           /\ IF MatchStarts(text', email_pattern) = {}
              THEN contact_info'.email = ""
              ELSE IsOneMatch(contact_info'.email, text', email_pattern)
    /\ Extracting => contact_info' = contact_info
    /\ (Extracting /\ outcome' = "record") => result'.contact_info = contact_info

C9_AbsentPhoneIsSentinel == [][C9_Step]_vars

C9_Witness ==
    /\ Returned
    /\ result.contact_info = [email |-> "", phone |-> ""]
    /\ Contains(text, "a+1 ")

(***************************************************************************)
(* C10: for the example text, the returned contact_info is                 *)
(* {email: "jane@example.com", phone: "(415) 555-0100"}.                   *)
(***************************************************************************)
C10_ExampleContact ==
    (Returned /\ text = ExampleText) =>
        result.contact_info = [email |-> "jane@example.com", phone |-> "(415) 555-0100"]

(***************************************************************************)
(* C12: parse_resume called with no text returns None: it does not raise,  *)
(* and neither the tagger, nor a pattern extractor, nor a step of the      *)
(* enhancement stage runs (no local of extract_information is ever set).   *)
(***************************************************************************)
C12_NoTextNoWork ==
    text = "" =>
        /\ pc \in {"new", "ready", "done"}
        /\ pc = "done" => outcome = "None"
        /\ outcome # "raised"
        /\ doc_ents = <<>>
        /\ locals = <<{}, {}, <<>>, <<>>, <<>>, NoContactInfo>>
        /\ rag_trace = <<>> /\ ~rag_failed
        /\ heur = NoHeur
        /\ result = NoRecord

C12_Witness == text = "" /\ pc = "done" /\ outcome = "None" /\ use_rag

RecordFields == {"raw_text", "skills", "education", "experience", "contact_info"}

(***************************************************************************)
(* C13: every record extract_information returns, with the enhancement     *)
(* stage off, run to its end, or failed at any of its steps, has the       *)
(* fields raw_text, skills, education, experience and contact_info; the    *)
(* three buckets are collections, empty or not, and contact_info has the   *)
(* fields email and phone.                                                 *)
(***************************************************************************)
C13_RecordShape ==
    Returned =>
        /\ DOMAIN result = RecordFields
        /\ IsFiniteSet(result.skills)
        /\ IsFiniteSet(result.education)
        /\ IsFiniteSet(result.experience)
        /\ DOMAIN result.contact_info = {"email", "phone"}

\* the stage failed at its fourth step, and two buckets are empty
C13_Witness ==
    /\ Returned /\ rag_failed /\ Len(rag_trace) = 4
    /\ result.skills = {} /\ result.education # {} /\ result.experience = {}

(***************************************************************************)
(* C14: a step of the enhancement stage (chunking, index building, a       *)
(* query) is taken only when a credential was configured at construction   *)
(* and the initialisation of the clients succeeded, which is what use_rag  *)
(* records; without a credential construction leaves use_rag False, and    *)
(* what construction left stands in every later invocation, so that a      *)
(* parser built without credential, or whose initialisation raised, never  *)
(* takes a step of the stage.                                              *)
(***************************************************************************)
C14_Step ==
    /\ (pc = "new" /\ ~key) => ~use_rag'
    /\ pc # "new" => (use_rag' = use_rag /\ key' = key)
    /\ (pc' \in RagPcs \/ rag_trace' # rag_trace \/ rag_failed') => (key /\ use_rag)
    /\ ~use_rag' => (rag_trace' = <<>> /\ rag_skills_response' = ""
                     /\ rag_education_response' = "" /\ rag_experience_response' = "")

C14_EnhancementOnlyWhenEnabled == [][C14_Step]_vars

\* the initialisation raised although the credential was there, and an
\* invocation has returned its record
C14_Witness ==
    /\ key /\ ~use_rag /\ Returned
    /\ rag_trace = <<>> /\ result.education # {}

(***************************************************************************)
(* C15: a query of the enhancement stage adds every non-empty candidate of *)
(* its answer to its bucket, whatever the candidate's length or shape: a   *)
(* candidate of the skills answer is in extracted_skills afterwards, and a *)
(* line of the education or experience answer is an entry of its list or   *)
(* is contained in one.                                                    *)
(***************************************************************************)
C15_Step ==
    /\ (pc = "rag_skills" /\ pc' = "rag_education") =>
           \A c \in ListSet(RagSkillCandidates(rag_skills_response')) :
               c \in extracted_skills'
    /\ (pc = "rag_education" /\ pc' = "rag_experience") =>
           \A l \in ListSet(RagLines(rag_education_response')) : InSome(l, education')
    /\ (pc = "rag_experience" /\ pc' = "build" /\ ~rag_failed') =>
           \A l \in ListSet(RagLines(rag_experience_response')) : InSome(l, experience')

C15_NoLineDropped == [][C15_Step]_vars

(***************************************************************************)
(* C18: when the entity stage has run, every ORG or PRODUCT span whose own *)
(* text, or whose window of 100 characters each side, contains an          *)
(* education keyword has its window (clipped to the text, with or without  *)
(* the blanks at its ends) in the education list, unless an entry of the   *)
(* list contains the span's text.                                          *)
(***************************************************************************)
C18_Step ==
    (pc = "entities" /\ pc' # "entities") =>
        \A i \in 1..Len(doc_ents') :
            LET ent == doc_ents'[i]
                context == Window(text, ent, EduWindow)
            IN  (/\ ent.label_ \in {"ORG", "PRODUCT"}
                 /\ \/ AnyIn(education_keywords, lower(EntText(text, ent)))
                    \/ AnyIn(education_keywords, lower(context))) =>
                    \/ context \in ListSet(education')
                    \/ strip(context) \in ListSet(education')
                    \/ InSome(EntText(text, ent), education)

C18_EducationCandidates == [][C18_Step]_vars

(***************************************************************************)
(* C19: when the entity stage has run, every ORG span that is no education *)
(* candidate (no education keyword in its text or in its window of 100)    *)
(* and whose window of 150 characters each side contains a job-title       *)
(* keyword has that window (with or without the blanks at its ends) in the *)
(* experience list, unless an entry of the list contains the span's text;  *)
(* and this whether or not job blocks were found.                          *)
(***************************************************************************)
C19_Step ==
    (pc = "entities" /\ pc' # "entities") =>
        \A i \in 1..Len(doc_ents') :
            LET ent == doc_ents'[i]
                context == Window(text, ent, ExpWindow)
            IN  (/\ ent.label_ = "ORG"
                 /\ ~AnyIn(education_keywords, lower(Window(text, ent, EduWindow)))
                 /\ AnyIn(job_title_keywords, lower(context))) =>
                    \/ context \in ListSet(experience')
                    \/ strip(context) \in ListSet(experience')
                    \/ InSome(EntText(text, ent), experience')

C19_EmployerCandidates == [][C19_Step]_vars

(***************************************************************************)
(* C20: in a text whose experience section a heading locates, each date    *)
(* range of the section has one extent, from its start to the start of the *)
(* next date range or to the end of the section, whichever headings locate *)
(* the section; the extents do not overlap; the experience blocks are the  *)
(* texts of these extents (less the blanks at their ends); no later step   *)
(* changes them, and each is an entry of the returned experience.          *)
(***************************************************************************)
C20_Step ==
    LET extents == UNION {SectionExtents(text, exp_headers[h]) : h \in HeadersIn(text)}
        blocks == {strip(Slice(text, x[1], x[2])) : x \in extents}
    IN  /\ (pc = "ready" /\ pc' = "entities") =>
               /\ \A a \in extents : \A b \in extents : a[1] = b[1] => a[2] = b[2]
               /\ \A a \in extents : \A b \in extents :
                      a # b => (a[2] <= b[1] \/ b[2] <= a[1])
               /\ ListSet(experience_blocks') = blocks
        /\ Extracting => experience_blocks' = experience_blocks
        /\ (pc = "build" /\ pc' = "done") =>
               ListSet(experience_blocks) \subseteq result'.experience

C20_OneBlockPerDateRange == [][C20_Step]_vars

\* two headings locate the section, which has two date ranges
C20_Witness ==
    /\ Returned
    /\ text = "Work Experience 2019 to 2021 Acme Inc. Jan to Present Lead\n"
    /\ experience_blocks = <<"2019 to 2021 Acme Inc.", "Jan to Present Lead",
                             "2019 to 2021 Acme Inc.", "Jan to Present Lead">>
    /\ result.experience = {"2019 to 2021 Acme Inc.", "Jan to Present Lead"}

(***************************************************************************)
(* C11: two invocations for the same text, of which one ran the heuristic  *)
(* stages only and for which the tagger gave the same spans, return        *)
(* records with the same sets of skills, education and experience and the  *)
(* same contact_info: nothing the one run leaves behind, in the locals or  *)
(* in the parser, reaches the other.                                       *)
(***************************************************************************)
C11_SameTextSameRecord ==
    (/\ Returned
     /\ other.pc = "done" /\ other.outcome = "record"
     /\ other.text = text /\ other.doc_ents = doc_ents
     /\ other.rag_trace = <<>>) =>
        /\ result.skills = other.result.skills
        /\ result.education = other.result.education
        /\ result.experience = other.result.experience
        /\ result.contact_info = other.result.contact_info
        /\ rag_trace = <<>>

C11_Witness ==
    /\ Returned /\ ~use_rag /\ key
    /\ other.pc = "done" /\ other.outcome = "record"
    /\ other.text = text /\ other.doc_ents = doc_ents /\ doc_ents # <<>>
    /\ Cardinality(result.skills) > 1

\* a text of TwoTexts, the spans the tagger gave for it, and the answers to
\* the education and experience queries ("" when the query was not made)
AloneRuns ==
    UNION {{<<t, ents, e, x>> : ents \in TaggerResults(t, MaxEnts),
                                e \in EducationAnswers, x \in ExperienceAnswers} :
              t \in TwoTexts}

\* each run with the record the invocation returns when it runs alone
AloneRecords ==
    {<<run,
       Record(run[1],
              KeywordSkills(run[1]) \cup EntitySkills(run[1], run[2]),
              RagEducation(RagLines(run[3]),
                           EducationEntities(run[1], run[2], EducationMatches(run[1]))),
              RagExperience(RagLines(run[4]),
                            Experience(run[1], run[2],
                                       ExperienceBlocks(run[1], lower(run[1]),
                                                        exp_headers))),
              ContactInfo(run[1]))>> : run \in AloneRuns}

(***************************************************************************)
(* C17: of two invocations of parse_resume interleaved in any way on one   *)
(* parser, each returns the record its own text yields alone (for the      *)
(* spans and answers it was given); a step of one invocation leaves the    *)
(* suspended one as it was, and no step of either changes the parser.      *)
(***************************************************************************)
C17_Step ==
    /\ (pc = "build" /\ pc' = "done") =>
           <<<<text, doc_ents, rag_education_response, rag_experience_response>>,
             result'>> \in AloneRecords
    /\ other' = other \/ other' = Frame
    /\ pc # "new" => (use_rag' = use_rag /\ key' = key)

C17_InvocationsIndependent == [][C17_Step]_vars

\* an invocation returns while the other, for another text, is in the
\* middle of the enhancement stage, both having set their buckets
C17_Witness ==
    /\ Returned /\ result.education # {}
    /\ other.text # text /\ other.pc = "rag_education"
    /\ other.extracted_skills # {}

(***************************************************************************)
(* C16: once parse_resume has returned the record of an uploaded document, *)
(* no step of the upload handler changes it: it keeps its five fields and  *)
(* their contents, and its raw_text is the text that was passed in.        *)
(***************************************************************************)
C16_Step ==
    (outcome = "record" /\ pc \in {"done"} \cup UploadPcs) =>
        /\ DOMAIN result' = RecordFields
        /\ result' = result
        /\ result'.raw_text = text

C16_RecordNotMutated == [][C16_Step]_vars

\* the sequences that hold the entries of seq in some order
Orders(seq) ==
    {[i \in 1..Len(seq) |-> seq[p[i]]] : p \in Permutations(1..Len(seq))}

(***************************************************************************)
(* C21: the entries the entity passes store do not depend on the order of  *)
(* the spans: when the entity stage has run, the education pass and the    *)
(* experience pass, run on the same spans in any other order, store the    *)
(* same set of fragments as the ones now in the education and experience   *)
(* lists.                                                                  *)
(***************************************************************************)
C21_Step ==
    (pc = "entities" /\ pc' # "entities") =>
        \A ents \in Orders(doc_ents') :
            /\ ListSet(EducationEntities(text, ents, education)) = ListSet(education')
            /\ ListSet(Experience(text, ents, experience_blocks))
                   = ListSet(experience')

C21_SpanOrderIrrelevant == [][C21_Step]_vars

(***************************************************************************)
(* The saved-jobs store (src/utils/job_storage.py) and the buttons of the  *)
(* application that use it (src/app.py).  A dictionary is a function on    *)
(* its keys; a datetime object at second n is the string "datetime(n)", so *)
(* that it differs from every string strftime makes of it; the value of    *)
(* "details" is a dictionary and the value of "history" a list.            *)
(***************************************************************************)
\* the clock stops here
MaxClock == 1
\* at most this many files in saved_jobs/
MaxFiles == 2

Sessions == {1, 2}

DictKeys == {"details"}
ListKeys == {"history"}

\* a datetime object at second n of the clock
DatetimeAt(n) == "datetime(" \o Ch(DigitChars, n + 1) \o ")"

\* isinstance(value, datetime), for a value that is no dictionary and no list
IsDatetime(value) == Len(value) = 11 /\ SubSeq(value, 1, 9) = "datetime("

\* value.strftime("%Y-%m-%d %H:%M:%S")
FormatDatetime(value) == "2026-11-03 12:00:0" \o Ch(value, 10)

\* value.strftime('%Y%m%d%H%M%S')
FormatStamp(value) == "2026110312000" \o Ch(value, 10)

RECURSIVE replace(_, _, _)
\* str.replace(old, new) for single characters
replace(s, old, new) ==
    IF Len(s) = 0 THEN ""
    ELSE (IF Ch(s, 1) = old THEN new ELSE Ch(s, 1))
             \o replace(SubSeq(s, 2, Len(s)), old, new)

\* d[k] = v
SetItem(d, k, v) == [x \in DOMAIN d \cup {k} |-> IF x = k THEN v ELSE d[x]]

\* lines 55-60, for a list without dictionaries
ProcessList(list) ==
    [i \in 1..Len(list) |->
        IF IsDatetime(list[i]) THEN FormatDatetime(list[i]) ELSE list[i]]

RECURSIVE process_dict_datetime(_)
\* lines 48-60: what the dictionary d holds when the call returns
process_dict_datetime(d) ==
    [k \in DOMAIN d |->
        IF k \in DictKeys THEN process_dict_datetime(d[k])
        ELSE IF k \in ListKeys THEN ProcessList(d[k])
        ELSE IF IsDatetime(d[k]) THEN FormatDatetime(d[k])
        ELSE d[k]]

\* line 25
JobId(job_data, now) ==
    replace(job_data.title, " ", "_") \o "_"
        \o replace(job_data.company, " ", "_") \o "_" \o FormatStamp(now)

\* line 26, without the directory
FileName(job_data, now) == JobId(job_data, now) \o ".json"

\* lines 32-40: job_data_copy when the loop is over; a list at the top is
\* left as it is
JobDataCopy(job_data) ==
    [k \in DOMAIN job_data |->
        IF k \in DictKeys THEN process_dict_datetime(job_data[k])
        ELSE IF k \in ListKeys THEN job_data[k]
        ELSE IF IsDatetime(job_data[k]) THEN FormatDatetime(job_data[k])
        ELSE job_data[k]]

\* lines 32 and 40: the copy is shallow, a nested dictionary is the caller's
\* own and is processed in place
CallerAfterLoop(job_data) ==
    [k \in DOMAIN job_data |->
        IF k \in DictKeys THEN process_dict_datetime(job_data[k]) ELSE job_data[k]]

\* line 44: json.dump with DateTimeEncoder, read back by json.load; the
\* encoder converts the datetime objects the loop has left
Written(job_data_copy) == process_dict_datetime(job_data_copy)

\* a file json.load cannot read
Unreadable == [unreadable |-> TRUE]

Readable(dir) == {f \in DOMAIN dir : dir[f] # Unreadable}

\* lines 62-83: the jobs of the readable files (the order of os.listdir is
\* not kept: the list is given by file)
load_saved_jobs(dir) == [f \in Readable(dir) |-> dir[f]]

\* line 102
Matches(job_data, job_title, job_company) ==
    /\ "title" \in DOMAIN job_data /\ job_data.title = job_title
    /\ "company" \in DOMAIN job_data /\ job_data.company = job_company

\* a remove_saved_job that looks at the title only
RemovableByTitle(dir, job_title, job_company) ==
    {f \in Readable(dir) : Matches(dir[f], job_title, dir[f].company)}

\* lines 95-104: the files remove_saved_job may come to delete, whatever the
\* order of os.listdir
Removable(dir, job_title, job_company) ==
    {f \in Readable(dir) : Matches(dir[f], job_title, job_company)}

\* app.py lines 936-939
IsSaved(saved_jobs, job_data) ==
    \E f \in DOMAIN saved_jobs :
        Matches(saved_jobs[f], job_data.title, job_data.company)

\* what a search puts on the screen
Listings ==
    {[title |-> "Data Engineer", company |-> "Acme", date_posted |-> "Recent"],
     [title |-> "Data_Engineer", company |-> "Acme", date_posted |-> "Recent"],
     [title |-> "Data Engineer", company |-> "Initech", date_posted |-> DatetimeAt(0),
      details |-> [updated |-> DatetimeAt(1),
                   history |-> <<DatetimeAt(0), "New">>]]}

\* the directory when the application starts
StartDirs == {<<>>, [f \in {"notes.json"} |-> Unreadable]}

\* a directory, and the sessions with its jobs loaded (app.py lines 241-242)
InitStore ==
    /\ ParserStart({""}, {""}) /\ key = FALSE
    /\ SearchIdle /\ HelpersIdle
    /\ saved_jobs_dir \in StartDirs
    /\ clock = 0
    /\ ui = [s \in Sessions |-> [saved_jobs |-> load_saved_jobs(saved_jobs_dir)]]
    /\ storage_call = NoCall

\* a second passes
Tick ==
    /\ clock < MaxClock
    /\ clock' = clock + 1
    /\ UNCHANGED <<saved_jobs_dir, ui, storage_call, not_store>>

\* app.py line 1505: a run of the script reloads the saved jobs
Rerun(s) ==
    /\ ui[s].saved_jobs # load_saved_jobs(saved_jobs_dir)
    /\ ui' = [ui EXCEPT ![s].saved_jobs = load_saved_jobs(saved_jobs_dir)]
    /\ UNCHANGED <<saved_jobs_dir, clock, storage_call, not_store>>

\* app.py lines 952-957 with save_job_to_local (lines 15-46), for the job
\* selected among the search results: the button is there when the
\* session's list does not have the job.  The file name is made at line 25
\* and the stamp at line 29; the clock may tick between.  storage_call keeps
\* the caller's dictionary as it was and as it is when the call returns.
SaveJob(s) ==
    \E selected_job \in Listings, later \in {clock, Min(clock + 1, MaxClock)} :
        LET file_name == FileName(selected_job, DatetimeAt(clock))
            stamped   == SetItem(selected_job, "date_saved",
                                 FormatDatetime(DatetimeAt(later)))
            dir       == SetItem(saved_jobs_dir, file_name,
                                 Written(JobDataCopy(stamped)))
        IN  /\ ~IsSaved(ui[s].saved_jobs, selected_job)
            /\ Cardinality(DOMAIN dir) <= MaxFiles
            /\ clock' = later
            /\ saved_jobs_dir' = dir
            /\ ui' = [ui EXCEPT ![s].saved_jobs = load_saved_jobs(dir)]
            /\ storage_call' = [op |-> "save", title |-> selected_job.title,
                                company |-> selected_job.company,
                                before |-> selected_job,
                                after |-> CallerAfterLoop(stamped),
                                ret |-> file_name]
            /\ UNCHANGED not_store

\* remove_saved_job (lines 85-108) and the reload of app.py lines 944-946:
\* the first readable file that matches is deleted and True is returned;
\* with no such file, False
RemoveWith(s, job_title, job_company, removable(_, _, _)) ==
    LET found == removable(saved_jobs_dir, job_title, job_company)
    IN  /\ \/ /\ found = {}
              /\ UNCHANGED <<saved_jobs_dir, ui>>
           \/ \E f \in found :
                  /\ saved_jobs_dir' = [g \in DOMAIN saved_jobs_dir \ {f} |->
                                            saved_jobs_dir[g]]
                  /\ ui' = [ui EXCEPT ![s].saved_jobs =
                                         load_saved_jobs(saved_jobs_dir')]
        /\ storage_call' = [op |-> "remove", title |-> job_title,
                            company |-> job_company,
                            before |-> <<>>, after |-> <<>>,
                            ret |-> IF found = {} THEN "False" ELSE "True"]
        /\ UNCHANGED <<clock, not_store>>

\* app.py lines 941-949: the button of the job search tab, shown when the
\* session's list has the selected job
RemoveSelected(s) ==
    \E selected_job \in Listings :
        /\ IsSaved(ui[s].saved_jobs, selected_job)
        /\ RemoveWith(s, selected_job.title, selected_job.company, Removable)

\* app.py lines 1505, 1552 and 1611-1622: the button of the saved jobs tab,
\* for a job of the list loaded in this run
RemoveListed(s) ==
    \E f \in Readable(saved_jobs_dir) :
        RemoveWith(s, saved_jobs_dir[f].title, saved_jobs_dir[f].company, Removable)

NextStore ==
    \/ Tick
    \/ \E s \in Sessions : Rerun(s)
    \/ \E s \in Sessions : SaveJob(s)
    \/ \E s \in Sessions : RemoveSelected(s)
    \/ \E s \in Sessions : RemoveListed(s)

SpecStore == InitStore /\ [][NextStore]_vars

(***************************************************************************)
(* C22: save_job_to_local leaves the caller's dictionary as it was: when   *)
(* the last call of the store was a save, the dictionary the caller passed *)
(* has, as the call returns, the keys and the values it had before the     *)
(* call, nested dictionaries and lists included.                           *)
(***************************************************************************)
C22_CallerDictUntouched ==
    storage_call.op = "save" => storage_call.after = storage_call.before

\* the call record shows a call of op that this step made
Called(op) ==
    /\ storage_call'.op = op
    /\ storage_call' # storage_call \/ saved_jobs_dir' # saved_jobs_dir

(***************************************************************************)
(* C23: every save writes a file of its own: the file name a save returns  *)
(* is not the name of a file that was there, and load_saved_jobs returns   *)
(* one job more after the save than before it.                             *)
(***************************************************************************)
C23_Step ==
    Called("save") =>
        /\ storage_call'.ret \notin DOMAIN saved_jobs_dir
        /\ Cardinality(DOMAIN load_saved_jobs(saved_jobs_dir'))
               = Cardinality(DOMAIN load_saved_jobs(saved_jobs_dir)) + 1

C23_SaveNeverOverwrites == [][C23_Step]_vars

\* the readable files of dir that hold a job of this title and company
FilesOf(dir, job_title, job_company) ==
    {f \in DOMAIN dir :
        /\ dir[f] # Unreadable
        /\ dir[f].title = job_title
        /\ dir[f].company = job_company}

(***************************************************************************)
(* C24: remove_saved_job(title, company) returns True exactly when a       *)
(* readable file holds a job of that title and company; it then deletes    *)
(* one such file and leaves every other file as it was; when it returns    *)
(* False the directory is as it was.                                       *)
(***************************************************************************)
C24_Step ==
    Called("remove") =>
        LET had == FilesOf(saved_jobs_dir, storage_call'.title, storage_call'.company)
        IN  /\ storage_call'.ret = "True" <=> had # {}
            /\ storage_call'.ret = "True" =>
                   \E f \in had :
                       /\ DOMAIN saved_jobs_dir' = DOMAIN saved_jobs_dir \ {f}
                       /\ \A g \in DOMAIN saved_jobs_dir' :
                              saved_jobs_dir'[g] = saved_jobs_dir[g]
            /\ storage_call'.ret = "False" => saved_jobs_dir' = saved_jobs_dir

C24_RemoveDeletesOneMatch == [][C24_Step]_vars

\* a job was removed while another saved job and an unreadable file stayed
C24_Witness ==
    /\ storage_call.op = "remove" /\ storage_call.ret = "True"
    /\ Readable(saved_jobs_dir) # {}

(***************************************************************************)
(* C25: once a remove of (title, company) has reported success, no saved   *)
(* job has that title and that company: while the successful remove is the *)
(* last call of the store, load_saved_jobs returns no such job, whatever   *)
(* the sessions did before.                                                *)
(***************************************************************************)
C25_RemovedJobIsGone ==
    (storage_call.op = "remove" /\ storage_call.ret = "True") =>
        FilesOf(saved_jobs_dir, storage_call.title, storage_call.company) = {}

(***************************************************************************)
(* JobSearchAgent.search_jobs (src/agents/job_search_agent.py lines 16-62) *)
(* with what SerpApiSearcher.search_jobs and JobScraper.search_jobs may    *)
(* answer.  search_pc is <<stage, i>>: the stage and the platform the loop *)
(* of the stage is at.                                                     *)
(***************************************************************************)
\* config.py line 15
JOB_PLATFORMS == <<"LinkedIn", "Indeed", "Glassdoor", "ZipRecruiter", "Monster">>

\* job_scraper.py lines 50-62
ScraperPlatforms == {JOB_PLATFORMS[i] : i \in 1..Len(JOB_PLATFORMS)}

\* the count argument is at most this
MaxCount == 2

\* the platforms argument: none, one platform, or two with one the scraper
\* does not know
PlatformArgs == {<<>>, <<"Indeed">>, <<"Indeed", "Dice">>, <<"Dice", "LinkedIn">>}

\* serp_api_searcher.py lines 116-127
ApiJob(platform, i) ==
    [title |-> "Data Engineer", platform |-> platform, position |-> i,
     is_real_job |-> TRUE]

\* job_scraper.py lines 84-95
GeneratedJob(platform, i) ==
    [title |-> "data Engineer", platform |-> platform, position |-> i,
     is_real_job |-> FALSE]

\* serp_api_searcher.py lines 22-24, 48-51, 58-60 and 133-137: no key, an
\* error or no result give [], and at most n results are kept
SerpAnswers(platform, n) ==
    {[i \in 1..m |-> ApiJob(platform, i)] : m \in 0..Max(0, n)}

\* job_scraper.py lines 48-62 and 78-101: a platform that is not supported
\* gives [], a supported one min(count, 5) generated listings, or [] when
\* the search raised
ScraperAnswers(platform, n) ==
    IF platform \notin ScraperPlatforms THEN {<<>>}
    ELSE {<<>>, [i \in 1..Max(0, Min(n, 5)) |-> GeneratedJob(platform, i)]}

\* a search_jobs that always goes on to the scraper
NoApiJobsEver(found) == TRUE

\* line 47: `if api_jobs:` is not taken
NoApiJobs(found) == found = <<>>

\* a search is asked for
InitSearch ==
    /\ ParserStart({""}, {""}) /\ key = FALSE
    /\ StoreIdle /\ HelpersIdle
    /\ search_pc = <<"called", 0>>
    /\ platforms \in PlatformArgs
    /\ count \in 0..MaxCount
    /\ api_jobs = <<>> /\ all_jobs = <<>>
    /\ search_calls = <<>>
    /\ jobs = <<>>

\* lines 30-34
DefaultPlatforms ==
    /\ search_pc = <<"called", 0>>
    /\ platforms' = IF platforms = <<>> THEN JOB_PLATFORMS ELSE platforms
    /\ api_jobs' = <<>>
    /\ search_pc' = <<"serp", 1>>
    /\ UNCHANGED <<count, all_jobs, search_calls, jobs, not_search>>

\* lines 36-44, one platform
AskSerpApi ==
    /\ search_pc[1] = "serp" /\ search_pc[2] <= Len(platforms)
    /\ \E platform_jobs \in SerpAnswers(platforms[search_pc[2]], count) :
           api_jobs' = api_jobs \o platform_jobs
    /\ search_calls' = Append(search_calls, <<"serp", platforms[search_pc[2]]>>)
    /\ search_pc' = <<"serp", search_pc[2] + 1>>
    /\ UNCHANGED <<platforms, count, all_jobs, jobs, not_search>>

\* lines 47-48
ReturnApiJobs ==
    /\ search_pc[1] = "serp" /\ search_pc[2] > Len(platforms)
    /\ ~NoApiJobs(api_jobs)
    /\ jobs' = api_jobs
    /\ search_pc' = <<"returned", 0>>
    /\ UNCHANGED <<platforms, count, api_jobs, all_jobs, search_calls, not_search>>

\* lines 50-52
FallBack ==
    /\ search_pc[1] = "serp" /\ search_pc[2] > Len(platforms)
    /\ NoApiJobs(api_jobs)
    /\ all_jobs' = <<>>
    /\ search_pc' = <<"scraper", 1>>
    /\ UNCHANGED <<platforms, count, api_jobs, search_calls, jobs, not_search>>

\* lines 53-60, one platform
AskScraper ==
    /\ search_pc[1] = "scraper" /\ search_pc[2] <= Len(platforms)
    /\ \E platform_jobs \in ScraperAnswers(platforms[search_pc[2]], count) :
           all_jobs' = all_jobs \o platform_jobs
    /\ search_calls' = Append(search_calls, <<"scraper", platforms[search_pc[2]]>>)
    /\ search_pc' = <<"scraper", search_pc[2] + 1>>
    /\ UNCHANGED <<platforms, count, api_jobs, jobs, not_search>>

\* line 62
ReturnAllJobs ==
    /\ search_pc[1] = "scraper" /\ search_pc[2] > Len(platforms)
    /\ jobs' = all_jobs
    /\ search_pc' = <<"returned", 0>>
    /\ UNCHANGED <<platforms, count, api_jobs, all_jobs, search_calls, not_search>>

NextSearch ==
    \/ DefaultPlatforms
    \/ AskSerpApi
    \/ ReturnApiJobs
    \/ FallBack
    \/ AskScraper
    \/ ReturnAllJobs

SpecSearch == InitSearch /\ [][NextSearch]_vars

\* the places of the calls of this kind in search_calls
CallsTo(kind) == {i \in 1..Len(search_calls) : search_calls[i][1] = kind}

(***************************************************************************)
(* C26: search_jobs asks the SerpAPI searcher for every requested platform *)
(* before it asks the scraper for any; it asks the scraper only when the   *)
(* SerpAPI results of all platforms together are empty; and the list it    *)
(* returns never holds both a real listing and a generated one.            *)
(***************************************************************************)
C26_ApiFirstThenScraper ==
    /\ \A i \in CallsTo("serp") : \A j \in CallsTo("scraper") : i < j
    /\ CallsTo("scraper") # {} =>
           /\ Len(search_calls) >= Len(platforms)
           /\ \A i \in 1..Len(platforms) : search_calls[i] = <<"serp", platforms[i]>>
           /\ api_jobs = <<>>
    /\ search_pc[1] = "returned" =>
           \A i \in 1..Len(jobs) : \A j \in 1..Len(jobs) :
               jobs[i].is_real_job = jobs[j].is_real_job

\* a search of two platforms came back with generated listings only
C26_Witness ==
    /\ search_pc[1] = "returned"
    /\ Len(platforms) = 2
    /\ Len(search_calls) = 4
    /\ jobs # <<>> /\ ~jobs[1].is_real_job

(***************************************************************************)
(* The calls with a resume record: JobSearchAgent.get_job_match_analysis   *)
(* (src/agents/job_search_agent.py), InterviewAgent                        *)
(* .generate_interview_questions (src/agents/interview_agent.py) and the   *)
(* two methods of ResumeKeywordExtractor                                   *)
(* (src/utils/resume_keyword_extractor.py).  key is the credential of      *)
(* config.py that the agents read; agent_call is the last call, with its   *)
(* arguments, the path it took and what it returned.                       *)
(***************************************************************************)
\* d.get(k, default)
Get(d, k, default) == IF k \in DOMAIN d THEN d[k] ELSE default

\* list[:n] of Python: a negative n counts from the end
SliceTo(list, n) ==
    SubSeq(list, 1, IF n >= 0 THEN Min(n, Len(list)) ELSE Max(0, Len(list) + n))

\* " ".join(list)
RECURSIVE Join(_)
Join(list) ==
    IF list = <<>> THEN ""
    ELSE IF Len(list) = 1 THEN list[1]
    ELSE list[1] \o " " \o Join(Tail(list))

\* [x for x in list if keep(x)]
Filter(list, keep(_)) ==
    LET kept == {i \in 1..Len(list) : keep(list[i])}
    IN  [n \in 1..Cardinality(kept) |->
            list[CHOOSE i \in kept : Cardinality({j \in kept : j <= i}) = n]]

\* the records parse_resume may have made, with the lists in an order, and
\* the empty record
ResumeRecords ==
    {<<>>,
     [skills |-> <<"docker", "kubernetes">>, experience |-> <<>>, education |-> <<>>],
     [skills |-> <<"Python", "python", "SQL">>,
      experience |-> <<"Senior Data Engineer at Acme, built SQL pipelines",
                       "QA Engineer">>,
      education |-> <<"MIT University">>],
     [skills |-> <<"aws", "sql", "git", "api", "css", "php", "gcp", "ios", "mac",
                   "vue", "go">>,
      experience |-> <<"Consultant">>, education |-> <<>>],
     [skills |-> <<"Excel">>, experience |-> <<"Sales">>, education |-> <<>>]}

\* the job listings the agents are asked about
JobPostings ==
    {[title |-> "Data Engineer",
      description |-> "Python and SQL on AWS with Docker: aws sql git api css php gcp ios mac vue go"],
     [title |-> "Data Analyst", description |-> "Reporting"],
     [title |-> "Team Lead", description |-> "Lead a team that uses Excel"],
     [description |-> "No title given"]}

\* what the completion may hold: prose, the JSON asked for, other JSON
LlmContents ==
    {"The candidate is a good match.",
     "{\"match_score\": 85, \"key_matches\": [\"SQL\"], \"gaps\": [], \"recommendations\": [\"Add AWS\"]}",
     "{\"verdict\": \"strong\"}"}

\* json.loads(content) raises no JSONDecodeError
IsJson(content) == Len(content) > 0 /\ Ch(content, 1) = "{"

\* json.loads(content), for the JSON texts of LlmContents
json_loads(content) ==
    IF Contains(content, "\"match_score\": 85")
    THEN [match_score |-> 85, key_matches |-> <<"SQL">>, gaps |-> <<>>,
          recommendations |-> <<"Add AWS">>]
    ELSE [verdict |-> "strong"]

\* how a call that may use the LLM goes: no credential, the client or the
\* request raises, or a completion comes back
LlmOutcomes(credential) ==
    IF credential THEN {"llm_failed"} \cup LlmContents ELSE {"no_key"}

\* job_search_agent.py lines 148-168
generate_basic_match_analysis(record, job) ==
    LET skill_list == Get(record, "skills", <<>>)
        job_description == lower(Get(job, "description", ""))
        Matching(skill) == Contains(job_description, lower(skill))
        matching_skills == Filter(skill_list, Matching)
    IN  [match_score |-> IF skill_list # <<>>
                         THEN Min(Len(matching_skills) * 10, 100) ELSE 50,
         key_matches |-> SliceTo(matching_skills, 5),
         gaps |-> <<"Unable to analyze gaps without AI processing">>,
         recommendations |->
             <<"Review the job description and identify key requirements",
               "Customize your resume to highlight relevant skills and experience",
               "Add any missing skills that you possess but aren't in your resume">>]

\* job_search_agent.py lines 75-146
get_job_match_analysis(record, job, outcome_of_llm) ==
    IF outcome_of_llm \in {"no_key", "llm_failed"}
    THEN generate_basic_match_analysis(record, job)
    ELSE IF IsJson(outcome_of_llm) THEN json_loads(outcome_of_llm)
    ELSE [match_analysis |-> strip(outcome_of_llm)]

\* interview_agent.py lines 160-174, the questions without their tips
general_questions ==
    <<"Tell me about yourself and your experience.",
      "Why are you interested in this position?",
      "What are your strengths and weaknesses?",
      "Describe a challenging situation you faced in your previous role and how you handled it.",
      "Where do you see yourself in 5 years?">>

\* lines 178-193
technical_questions ==
    <<"Can you describe your experience with modern development tools and practices?",
      "How do you keep your technical skills current?",
      "Describe a complex technical problem you solved recently.",
      "How do you approach debugging a complex issue?",
      "How do you ensure code quality in your projects?">>

\* lines 197-212
data_questions ==
    <<"Describe a complex data analysis you performed and the insights you derived.",
      "Which data visualization tools are you comfortable using?",
      "How do you ensure the accuracy of your data analysis?",
      "How do you explain complex data insights to non-technical stakeholders?",
      "Describe your experience with SQL and database querying.">>

\* lines 216-231
leadership_questions ==
    <<"How do you motivate team members?",
      "Describe how you handle conflicts within your team.",
      "How do you prioritize tasks when managing multiple projects?",
      "Tell me about a time when you had to make a difficult decision as a leader.",
      "How do you provide feedback to team members?">>

\* lines 236-251
professional_questions ==
    <<"How do you prioritize your work when dealing with multiple deadlines?",
      "Describe a situation where you had to adapt to a significant change at work.",
      "How do you approach working in a team versus working independently?",
      "Tell me about a time when you went above and beyond in your role.",
      "How do you handle feedback or criticism?">>

\* interview_agent.py lines 155-256
generate_basic_questions(job, question_count) ==
    LET job_title == lower(Get(job, "title", "this position"))
        questions ==
            IF Contains(job_title, "developer") \/ Contains(job_title, "engineer")
            THEN general_questions \o technical_questions
            ELSE IF Contains(job_title, "data") \/ Contains(job_title, "analyst")
            THEN general_questions \o data_questions
            ELSE IF Contains(job_title, "manager") \/ Contains(job_title, "lead")
            THEN general_questions \o leadership_questions
            ELSE general_questions \o professional_questions
    IN  SliceTo(questions, question_count)

\* what is left of LlmOutcomes when no completion comes back
WithoutCompletion(credential) == LlmOutcomes(credential) \ LlmContents

\* interview_agent.py lines 24-25 and 151-153: without a credential, and
\* when the client or the request raises.  What lines 26-150 make of a
\* completion is not modelled.
generate_interview_questions(job, question_count, outcome_of_llm) ==
    generate_basic_questions(job, question_count)

\* question_count is between these
MinQuestionCount == -2
MaxQuestionCount == 11

\* a resume record and a credential, and no call yet
InitHelpers ==
    /\ ParserStart({""}, {""})
    /\ StoreIdle /\ SearchIdle
    /\ resume_data \in ResumeRecords
    /\ agent_call = NoAgentCall

\* app.py: the match analysis of the selected job
MatchAnalysis ==
    /\ \E job \in JobPostings, outcome_of_llm \in LlmOutcomes(key) :
        agent_call' = [op |-> "get_job_match_analysis", job_data |-> job,
                       path |-> outcome_of_llm,
                       ret |-> get_job_match_analysis(resume_data, job, outcome_of_llm)]
    /\ UNCHANGED <<resume_data, not_helpers>>

\* app.py: the interview questions for the selected job
InterviewQuestions ==
    /\ \E job \in JobPostings, outcome_of_llm \in WithoutCompletion(key),
          question_count \in MinQuestionCount..MaxQuestionCount :
        agent_call' = [op |-> "generate_interview_questions", job_data |-> job,
                       question_count |-> question_count,
                       path |-> outcome_of_llm,
                       ret |-> generate_interview_questions(job, question_count,
                                                            outcome_of_llm)]
    /\ UNCHANGED <<resume_data, not_helpers>>

\* resume_keyword_extractor.py lines 13-36, in the order of the dictionary
tech_keywords ==
    <<"python", "java", "javascript", "typescript", "c++", "c#", "ruby",
      "go", "rust", "swift", "kotlin", "php", "scala", "perl", "r",
      "html", "css", "sql",
      "react", "angular", "vue", "django", "flask", "spring", "express",
      "rails", "laravel", "asp.net", "bootstrap", "jquery", "tensorflow",
      "pytorch", "keras", "scikit-learn", "pandas", "numpy",
      "aws", "azure", "gcp", "google cloud", "heroku", "docker", "kubernetes",
      "jenkins", "gitlab", "github", "bitbucket", "linux", "windows", "mac",
      "ios", "android",
      "api", "rest", "graphql", "microservices", "ci/cd", "agile", "scrum",
      "devops", "testing", "unit testing", "integration testing", "git",
      "version control", "database", "sql", "nosql", "machine learning",
      "deep learning", "data science", "big data", "blockchain", "cloud",
      "security", "authentication", "authorization">>

\* lines 39-48
job_titles ==
    <<"software engineer", "software developer", "web developer", "frontend developer",
      "backend developer", "full stack developer", "data scientist", "data analyst",
      "machine learning engineer", "devops engineer", "site reliability engineer",
      "cloud engineer", "systems administrator", "database administrator",
      "quality assurance engineer", "qa engineer", "product manager", "project manager",
      "ux designer", "ui designer", "graphic designer", "network engineer",
      "security engineer", "business analyst", "data engineer", "solutions architect",
      "technical lead", "engineering manager", "cto", "cio", "ceo">>

\* lines 51-61
resume_stopwords ==
    {"resume", "curriculum", "vitae", "cv", "objective", "summary", "experience",
     "education", "skills", "references", "projects", "achievements", "responsibilities",
     "phone", "email", "address", "linkedin", "github", "portfolio", "website",
     "a", "an", "the", "and", "but", "or", "for", "nor", "on", "at", "to", "from",
     "by", "with", "in", "out", "over", "under", "again", "further", "then",
     "once", "here", "there", "when", "where", "why", "how", "all", "any",
     "both", "each", "few", "more", "most", "other", "some", "such", "no",
     "not", "only", "own", "same", "so", "than", "too", "very", "s",
     "t", "can", "will", "just", "don", "should", "now"}

\* r'\b\w+\b'
word_pattern == <<WB, Plus(WordCh), WB>>

\* lines 86-92 and 99-101: the words of the joined list that are no
\* stopwords and longer than two characters
KeptWords(list) ==
    LET Kept(word) == word \notin resume_stopwords /\ Len(word) > 2
    IN  Filter(findall(word_pattern, lower(Join(list))), Kept)

\* [k.lower() for k in final_keywords]
Lowered(list) == {lower(list[i]) : i \in 1..Len(list)}

\* Counter(list).most_common(n): the distinct entries by falling count,
\* entries of equal count in the order of their first occurrence
most_common(list, n) ==
    LET firsts == {i \in 1..Len(list) : \A j \in 1..(i - 1) : list[j] # list[i]}
        Count(i) == Cardinality({j \in 1..Len(list) : list[j] = list[i]})
        Before(i) == {j \in firsts : \/ Count(j) > Count(i)
                                     \/ Count(j) = Count(i) /\ j < i}
        ranked == [r \in 1..Cardinality(firsts) |->
                      list[CHOOSE i \in firsts : Cardinality(Before(i)) = r - 1]]
    IN  SubSeq(ranked, 1, Min(n, Len(ranked)))

RECURSIVE AddThenCheck(_, _, _)
\* lines 121-125 and 128-132: the entry is appended, then the length is
\* compared with max_keywords; returned tells that the method returned
AddThenCheck(final_keywords, candidates, max_keywords) ==
    IF candidates = <<>> THEN [final_keywords |-> final_keywords, returned |-> FALSE]
    ELSE IF lower(Head(candidates)) \in Lowered(final_keywords)
    THEN AddThenCheck(final_keywords, Tail(candidates), max_keywords)
    ELSE LET longer == Append(final_keywords, Head(candidates))
         IN  IF Len(longer) >= max_keywords
             THEN [final_keywords |-> longer, returned |-> TRUE]
             ELSE AddThenCheck(longer, Tail(candidates), max_keywords)

RECURSIVE CheckThenAdd(_, _, _)
\* lines 135-139: the length is compared first
CheckThenAdd(final_keywords, candidates, max_keywords) ==
    IF candidates = <<>> \/ Len(final_keywords) >= max_keywords THEN final_keywords
    ELSE CheckThenAdd(IF lower(Head(candidates)) \in Lowered(final_keywords)
                      THEN final_keywords
                      ELSE Append(final_keywords, Head(candidates)),
                      Tail(candidates), max_keywords)

\* lines 104-110
TechnicalTerms(all_text) ==
    LET joined == lower(Join(all_text))
        Occurs(term) == Contains(joined, term)
    IN  Filter(tech_keywords, Occurs)

\* lines 63-141
extract_keywords(record, max_keywords) ==
    IF record = <<>> THEN <<>>
    ELSE LET skill_list == Get(record, "skills", <<>>)
             all_text == skill_list
                            \o KeptWords(Get(record, "experience", <<>>))
                            \o KeptWords(Get(record, "education", <<>>))
             technical_terms == TechnicalTerms(all_text)
             after_skills == AddThenCheck(<<>>, skill_list, max_keywords)
             after_terms == AddThenCheck(after_skills.final_keywords, technical_terms,
                                         max_keywords)
         IN  IF after_skills.returned THEN after_skills.final_keywords
             ELSE IF after_terms.returned THEN after_terms.final_keywords
             ELSE CheckThenAdd(after_terms.final_keywords,
                               most_common(all_text \o technical_terms,
                                           max_keywords * 2),
                               max_keywords)

\* lines 175-176
data_science_terms ==
    <<"data science", "machine learning", "ai", "artificial intelligence",
      "deep learning", "statistics", "python", "r", "tensorflow", "pytorch">>

\* lines 181-182
frontend_terms ==
    <<"frontend", "front-end", "react", "angular", "vue", "javascript",
      "html", "css", "ui", "ux", "design">>

\* lines 187-188
backend_terms ==
    <<"backend", "back-end", "server", "api", "database", "sql",
      "nosql", "django", "flask", "node", "express", "spring">>

\* lines 193-194
devops_terms ==
    <<"devops", "aws", "azure", "gcp", "cloud", "docker", "kubernetes",
      "ci/cd", "jenkins", "deployment", "infrastructure">>

\* max(matching_titles, key=len): the first of the longest
LongestFirst(list) ==
    list[CHOOSE i \in 1..Len(list) :
            /\ \A j \in 1..Len(list) : Len(list[j]) <= Len(list[i])
            /\ \A j \in 1..(i - 1) : Len(list[j]) < Len(list[i])]

\* lines 143-199
extract_job_title(record) ==
    IF record = <<>> THEN "software engineer"
    ELSE LET experience_text == lower(Join(Get(record, "experience", <<>>)))
             InExperience(title) == Contains(experience_text, title)
             matching_titles == Filter(job_titles, InExperience)
             skills_text == lower(Join(Get(record, "skills", <<>>)))
         IN  IF matching_titles # <<>> THEN LongestFirst(matching_titles)
             ELSE IF AnyIn(data_science_terms, skills_text) THEN "data scientist"
             ELSE IF AnyIn(frontend_terms, skills_text) THEN "frontend developer"
             ELSE IF AnyIn(backend_terms, skills_text) THEN "backend developer"
             ELSE IF AnyIn(devops_terms, skills_text) THEN "devops engineer"
             ELSE "software engineer"

\* max_keywords is at most this
MaxKeywords == 4

\* app.py line 495, for any max_keywords
ExtractKeywords ==
    /\ \E max_keywords \in 0..MaxKeywords :
        agent_call' = [op |-> "extract_keywords", max_keywords |-> max_keywords,
                       ret |-> extract_keywords(resume_data, max_keywords)]
    /\ UNCHANGED <<resume_data, not_helpers>>

\* app.py line 498
ExtractJobTitle ==
    /\ agent_call' = [op |-> "extract_job_title",
                      ret |-> extract_job_title(resume_data)]
    /\ UNCHANGED <<resume_data, not_helpers>>

NextHelpers ==
    \/ MatchAnalysis
    \/ InterviewQuestions
    \/ ExtractKeywords
    \/ ExtractJobTitle

SpecHelpers == InitHelpers /\ [][NextHelpers]_vars

\* the skills of the resume record that occur in the job's description,
\* letter case aside
SkillsInDescription(job) ==
    {i \in 1..Len(Get(resume_data, "skills", <<>>)) :
        Contains(lower(Get(job, "description", "")), lower(resume_data.skills[i]))}

(***************************************************************************)
(* C27: whatever path get_job_match_analysis takes, what it returns has a  *)
(* match_score between 0 and 100 and a recommendations list; and when no   *)
(* completion was parsed (no credential, a failed call, a completion that  *)
(* is not JSON) the score is min(10 * the number of resume skills found in *)
(* the job description, 100), or 50 for a resume without skills, and       *)
(* key_matches holds at most 5 entries, each a skill of the resume.        *)
(***************************************************************************)
C27_MatchAnalysisShape ==
    agent_call.op = "get_job_match_analysis" =>
        LET ret == agent_call.ret
            found == Cardinality(SkillsInDescription(agent_call.job_data))
            skill_list == Get(resume_data, "skills", <<>>)
        IN  /\ "match_score" \in DOMAIN ret
            /\ ret.match_score \in 0..100
            /\ "recommendations" \in DOMAIN ret
            /\ ~IsJson(agent_call.path) =>
                   /\ ret.match_score =
                          IF skill_list = <<>> THEN 50 ELSE Min(10 * found, 100)
                   /\ Len(ret.key_matches) <= 5
                   /\ \A i \in 1..Len(ret.key_matches) :
                          \E j \in 1..Len(skill_list) : ret.key_matches[i] = skill_list[j]

(***************************************************************************)
(* C28: without a credential or with a failed LLM call,                    *)
(* generate_interview_questions returns at most max(0, question_count)     *)
(* questions, exactly question_count of them when question_count is        *)
(* between 0 and 10, and the questions it returns start with the five      *)
(* general questions in their order.                                       *)
(***************************************************************************)
C28_RequestedNumberOfQuestions ==
    (/\ agent_call.op = "generate_interview_questions"
     /\ agent_call.path \in {"no_key", "llm_failed"}) =>
        LET ret == agent_call.ret
            n == agent_call.question_count
        IN  /\ Len(ret) <= Max(0, n)
            /\ n \in 0..10 => Len(ret) = n
            /\ \A i \in 1..Min(5, Len(ret)) : ret[i] = general_questions[i]

\* where a keyword comes from: 1 a skill of the record, 2 a technical term,
\* 3 another word
KeywordClass(keyword) ==
    IF \E i \in 1..Len(Get(resume_data, "skills", <<>>)) :
           lower(resume_data.skills[i]) = lower(keyword)
    THEN 1
    ELSE IF \E i \in 1..Len(tech_keywords) : tech_keywords[i] = lower(keyword)
    THEN 2
    ELSE 3

\* the first place of the skill in the record's skills
SkillPlace(keyword) ==
    SetMin({i \in 1..Len(resume_data.skills) :
               lower(resume_data.skills[i]) = lower(keyword)})

(***************************************************************************)
(* C29: extract_keywords returns at most max_keywords keywords, no two of  *)
(* them equal when letter case is ignored; the skills of the record come   *)
(* first, in their order, then technical terms, then other words; and for  *)
(* an empty record it returns the empty list.                              *)
(***************************************************************************)
C29_KeywordsBounded ==
    agent_call.op = "extract_keywords" =>
        LET ret == agent_call.ret
        IN  /\ Len(ret) <= agent_call.max_keywords
            /\ \A i \in 1..Len(ret) : \A j \in 1..(i - 1) : lower(ret[i]) # lower(ret[j])
            /\ \A i \in 1..Len(ret) : \A j \in 1..(i - 1) :
                   /\ KeywordClass(ret[j]) <= KeywordClass(ret[i])
                   /\ KeywordClass(ret[i]) = 1 => SkillPlace(ret[j]) < SkillPlace(ret[i])
            /\ resume_data = <<>> => ret = <<>>

\* some entry of the list is one of the terms
HasTermOf(list, terms) ==
    \E i \in 1..Len(list) : \E j \in 1..Len(terms) : lower(list[i]) = terms[j]

(***************************************************************************)
(* C30: extract_job_title returns a longest known job title found in the   *)
(* experience text when there is one; without one, a record whose skills   *)
(* are devops terms only, none of them a data-science, frontend or backend *)
(* term, gives "devops engineer", and a record in whose skills no term of  *)
(* any category occurs, or an empty record, gives "software engineer".     *)
(***************************************************************************)
C30_TitleFromExperienceOrSkills ==
    agent_call.op = "extract_job_title" =>
        LET ret == agent_call.ret
            experience_text == lower(Join(Get(resume_data, "experience", <<>>)))
            known == {i \in 1..Len(job_titles) : Contains(experience_text, job_titles[i])}
            skill_list == Get(resume_data, "skills", <<>>)
            others == data_science_terms \o frontend_terms \o backend_terms
        IN  /\ known # {} =>
                   /\ \E i \in known : ret = job_titles[i]
                   /\ \A i \in known : Len(job_titles[i]) <= Len(ret)
            /\ (/\ known = {}
                /\ skill_list # <<>>
                /\ \A i \in 1..Len(skill_list) :
                       HasTermOf(<<skill_list[i]>>, devops_terms)
                /\ ~HasTermOf(skill_list, others)) => ret = "devops engineer"
            /\ (/\ known = {}
                /\ ~AnyIn(others \o devops_terms, lower(Join(skill_list))))
                   => ret = "software engineer"
====
